---- MODULE Spec2Model ----
(***************************************************************************)
(* A model of the chat gateway's streaming orchestration engine:           *)
(*   - the access evaluator (app/auth/authorization.py),                   *)
(*   - the tool registry and tool client pool (services/mcp_service.py),   *)
(*   - the schema translator's executor (services/tool_schema_service.py), *)
(*   - the OpenAI-style provider adapter with its tool-call accumulator    *)
(*     (services/llm_service.py),                                          *)
(*   - the chat orchestrator's turns (services/chat_service.py),           *)
(*   - the websocket handler and the chat endpoint (api/websocket.py,      *)
(*     api/chat.py).                                                       *)
(*                                                                         *)
(* Text is modelled as a sequence of one-character strings, so that        *)
(* concatenation, splitting and parsing are computed, not assumed.         *)
(*                                                                         *)
(* The specifications share the state:                                     *)
(*   SpecPool     - concurrent tasks using the tool client pool of the     *)
(*                  MCPService instances, interleaved at their await       *)
(*                  points, and the shutdown path closing the pools;       *)
(*   SpecStream   - one streaming chat turn over the OpenAI-style adapter: *)
(*                  provider lines are read one by one, accumulated,       *)
(*                  executed and forwarded to the caller;                  *)
(*   SpecAdapters - the same turn over the OpenAI-style or the Ollama      *)
(*                  adapter, with the failures of the provider request;    *)
(*   SpecTurn     - a turn from the validation of the selected tools and   *)
(*                  the schema generation to the stored chat entry;        *)
(*   SpecValidate - the validation operations called while a turn runs;    *)
(*   SpecNames    - the namespacing of the schema translator;              *)
(*   SpecAuth     - the access evaluator;                                  *)
(*   SpecHistory  - the chat log: stored turns and get_chat_history;       *)
(*   SpecMessage  - a non-streaming turn (process_message);                *)
(*   SpecChat     - a turn of either kind, with the provider check;        *)
(*   SpecClose    - the pool with repeated calls of close_mcp_clients;     *)
(*   SpecWs       - the entry points of a turn: a websocket connection     *)
(*                  and the POST /message endpoint;                        *)
(*   SpecWsFair   - SpecWs with the turn's steps taken when they can be;   *)
(*   SpecIdentity - SpecWs preceded by the identity an entry point gives   *)
(*                  the turn (middleware, websocket endpoint);             *)
(*   SpecToolCall - execute_tool_call run to its end, with its result;     *)
(*   SpecParameters - the parameter schemas of the schema translator;      *)
(*   SpecConcurrent - concurrent streaming turns on one ChatService;       *)
(*   SpecListing  - the tool listing and schema generation on the pools.   *)
(***************************************************************************)
EXTENDS Integers, Sequences, FiniteSets, TLC

VARIABLES
    mcp_clients,        \* MCPService.mcp_clients of each instance: tool id -> client
    clients,            \* every Client object constructed so far, in order
    task,               \* the concurrent tasks (coroutines) and their locals
    closer,             \* lifespan/close_mcp_clients: registered services, position, snapshot
    received,           \* provider lines read so far by aiter_lines (history)
    tool_calls_buffer,  \* _stream_openai's accumulator, in dict insertion order
    stream,             \* position of the streaming turn
    pending,            \* _execute_and_stream_tool_calls: tool_calls still to run
    rounds,             \* invocations of _execute_and_stream_tool_calls so far
    executions,         \* every execute_tool_call invocation of the turn (history)
    yielded,            \* chunks yielded by generate_response_stream, with their site
    response_chunks,    \* ChatService.process_message_stream's response_chunks
    delivered,          \* chunks received by the caller of process_message_stream
    chat_history,       \* ChatService.chat_history
    turn_user,          \* user_email of the streaming turn
    failure,            \* the failure of the provider request of the turn, or "none"
    selected_tools,     \* selected_tools of the turn
    validated,          \* validated_tools of process_message_stream
    tools_select_could_used, \* the authorized tool ids of the turn
    tool_schemas,       \* the schemas passed to the provider (with their metadata)
    call_log,           \* calls of the pure operations with their results (history)
    turns,              \* number of _store_chat_entry calls per user (history)
    message,            \* message of the turn
    llm_provider,       \* llm_provider (provider id) of the turn
    adapter_calls,      \* calls of the provider adapters, which send the request (history)
    ws                  \* the websocket of the turn: open, and the messages sent on it

poolVars == <<mcp_clients, clients, task, closer>>
streamVars == <<received, tool_calls_buffer, stream, pending, rounds, executions, yielded,
                response_chunks, delivered, chat_history, turn_user, failure,
                selected_tools, validated, tools_select_could_used, tool_schemas,
                call_log, turns, message, llm_provider, adapter_calls, ws>>
\* The provider stream of a turn and what it produced.
ioVars == <<received, tool_calls_buffer, stream, pending, rounds, executions, yielded,
            response_chunks, delivered, ws>>
\* What the steps of the provider stream never change.
turnVars == <<turn_user, selected_tools, validated, tools_select_could_used,
              tool_schemas, call_log, message, llm_provider, adapter_calls>>
vars == <<mcp_clients, clients, task, closer, received, tool_calls_buffer, stream,
          pending, rounds, executions, yielded, response_chunks, delivered, chat_history,
          turn_user, failure, selected_tools, validated, tools_select_could_used,
          tool_schemas, call_log, turns, message, llm_provider, adapter_calls, ws>>

(***************************************************************************)
(* Bounds of the model.                                                    *)
(***************************************************************************)
MaxClients == 2      \* Client objects constructed in one run
MaxLines == 3        \* provider lines read in one streaming turn
MaxSchemas == 2      \* schemas generated in one run of the schema translator
MaxCalls == 2        \* logged calls of the pure operations in one run
MaxTurns == 102      \* turns stored for one user in one run
MaxMessages == 2     \* messages handled on one websocket connection

\* The concurrent tasks of the pool specification.  A task runs one operation
\* after the other; two tasks give every interleaving of a pair of operations
\* at their await points.
Tasks == {"t1", "t2"}

(***************************************************************************)
(* Access evaluator.                                                       *)
(***************************************************************************)
mock_user_groups ==
    ( "test@test.com" :> {"default", "admin", "mcp_users"} ) @@
    ( "user@example.com" :> {"default", "mcp_users"} ) @@
    ( "admin@example.com" :> {"default", "admin", "mcp_users", "super_admin"} )

\* A variant in which a user absent from the table is in no group.
mock_user_groups_of_NoDefault(userid) ==
    IF userid \in DOMAIN mock_user_groups THEN mock_user_groups[userid] ELSE {}

\* mock_user_groups.get(userid, ["default"])
mock_user_groups_of(userid) ==
    IF userid \in DOMAIN mock_user_groups THEN mock_user_groups[userid] ELSE {"default"}

is_user_in_group(userid, groupid) == groupid \in mock_user_groups_of(userid)

\* The user identities the model submits requests for.
Users == {"user@example.com", "unknown"}

(***************************************************************************)
(* Tool registry: MCPService.tools as loaded by _load_mcp_tools.  The      *)
(* tool.json files are inputs of the program; the registry below holds one *)
(* tool of every kind and of several required groups.                      *)
(***************************************************************************)
FS == <<"f">>
DS == <<"d", "_", "s">>
AD == <<"a">>
BI == <<"b">>
EX == <<"e">>

tools ==
    ( FS :> [type |-> "fastmcp",  required_group |-> "mcp_users", server_path |-> TRUE] ) @@
    ( DS :> [type |-> "fastmcp",  required_group |-> "default",   server_path |-> TRUE] ) @@
    ( AD :> [type |-> "fastmcp",  required_group |-> "admin",     server_path |-> TRUE] ) @@
    ( BI :> [type |-> "builtin",  required_group |-> "default",   server_path |-> FALSE] ) @@
    ( EX :> [type |-> "external", required_group |-> "mcp_users", server_path |-> FALSE] )

\* The functions each tool server exposes (client.list_tools()).
ServerTools ==
    ( FS :> << <<"r">> >> ) @@ ( DS :> << <<"r">> >> ) @@ ( AD :> << <<"r">> >> )

\* The MCPService instances of the process: ChatService.mcp_service and
\* LLMService.mcp_service (each service constructs its own).
Services == {"chat", "llm"}

(***************************************************************************)
(* Python dicts keep insertion order: a dict is a sequence of key/value    *)
(* records with distinct keys.                                             *)
(***************************************************************************)
DictHas(d, key) == \E i \in 1..Len(d) : d[i].k = key

DictGet(d, key) == d[CHOOSE i \in 1..Len(d) : d[i].k = key].v

DictSet(d, key, val) ==
    IF DictHas(d, key)
    THEN [i \in 1..Len(d) |-> IF d[i].k = key THEN [k |-> key, v |-> val] ELSE d[i]]
    ELSE Append(d, [k |-> key, v |-> val])

(***************************************************************************)
(* Tool registry operations.                                               *)
(***************************************************************************)
\* MCPService.validate_tool_access for one tool id: the has_access field.
validate_tool_access(tool_id, user_email) ==
    IF tool_id \notin DOMAIN tools
    THEN FALSE
    ELSE is_user_in_group(user_email, tools[tool_id].required_group)

\* The access check made inside execute_tool (after the tool was found).
execute_tool_access_Skipped(tool_id, user_email) == TRUE

execute_tool_access(tool_id, user_email) ==
    is_user_in_group(user_email, tools[tool_id].required_group)

\* The access check made inside execute_tool_call.
execute_tool_call_access_Skipped(tool_id, user_email) == tool_id \in DOMAIN tools

execute_tool_call_access(tool_id, user_email) ==
    validate_tool_access(tool_id, user_email)

\* function_name.split('_', 1) of execute_tool_call; ok is "'_' in function_name".
FirstSep(function_name) ==
    CHOOSE i \in 1..Len(function_name) :
        /\ function_name[i] = "_"
        /\ \A j \in 1..(i - 1) : function_name[j] /= "_"

SplitFunctionName(function_name) ==
    IF \E i \in 1..Len(function_name) : function_name[i] = "_"
    THEN [ok |-> TRUE,
          tool_id |-> SubSeq(function_name, 1, FirstSep(function_name) - 1),
          server_tool_name |-> SubSeq(function_name, FirstSep(function_name) + 1,
                                      Len(function_name))]
    ELSE [ok |-> FALSE, tool_id |-> <<>>, server_tool_name |-> <<>>]

(***************************************************************************)
(* Concurrent use of the tool client pool.  A task runs one operation; it  *)
(* is suspended only where the code awaits I/O: client.__aenter__(),       *)
(* client.list_tools(), client.call_tool().                                *)
(***************************************************************************)
IdleTask ==
    [pc |-> "idle", op |-> "none", svc |-> "none", tool |-> <<>>, user |-> "none",
     client |-> 0, checked |-> FALSE, result |-> "none"]

\* Inputs of the operations.
ToolIdInputs == DOMAIN tools \cup { <<"x">> }
FunctionNameInputs ==
    { FS \o <<"_", "r">>, DS \o <<"_", "r">>, AD \o <<"_", "r">>,
      BI \o <<"_", "r">>, <<"x", "_", "r">>, <<"r">> }

\* The await that follows _get_mcp_client in each operation.
AfterClient(op) == IF op = "execute_tool_call" THEN "call_tool" ELSE "list_tools"

\* A task that ends its operation: its locals are gone, its result is returned.
Finished(tk, res) == [IdleTask EXCEPT !.pc = "done", !.result = res]

\* The invocation's own access check found tk.user in the group of tk.tool.
Granted(tk) == [tk EXCEPT !.checked = TRUE]

\* The result of an exception raised below the access check, per operation:
\* _execute_fastmcp_tool, execute_tool_call and _get_schemas_for_tool catch it.
Caught(op) == "error"

\* Entering client.call_tool: the tool tk.tool is dispatched for tk.user.
Dispatching(tk) == [tk EXCEPT !.pc = "call_tool"]

\* A Client object whose __aenter__ raised: it was never connected and nothing
\* refers to it any more.
FailedClient == [tool |-> <<>>, svc |-> "none", state |-> "failed"]

\* MCPService._get_mcp_client up to its first suspension, called by task t
\* whose record (with op, svc, tool, user set) is tk.
get_mcp_client(t, tk) ==
    IF DictHas(mcp_clients[tk.svc], tk.tool)
    THEN \* cached: return self.mcp_clients[tool_id], no suspension
         /\ task' = [task EXCEPT ![t] =
                IF AfterClient(tk.op) = "call_tool"
                THEN Dispatching([tk EXCEPT !.client = DictGet(mcp_clients[tk.svc], tk.tool)])
                ELSE [tk EXCEPT !.pc = "list_tools",
                                !.client = DictGet(mcp_clients[tk.svc], tk.tool)]]
         /\ UNCHANGED <<mcp_clients, clients>>
    ELSE IF ~tools[tk.tool].server_path
    THEN \* raise ValueError("Server path not found") (KeyError for an external tool)
         /\ task' = [task EXCEPT ![t] = Finished(tk, Caught(tk.op))]
         /\ UNCHANGED <<mcp_clients, clients>>
    ELSE \* client = Client(server_path); await client.__aenter__()
         /\ Len(clients) < MaxClients
         /\ clients' = Append(clients,
                [tool |-> tk.tool, svc |-> tk.svc, state |-> "connecting"])
         /\ task' = [task EXCEPT ![t] =
                [tk EXCEPT !.pc = "aenter", !.client = Len(clients) + 1]]
         /\ UNCHANGED mcp_clients

\* MCPService.execute_tool, to its first suspension or to its end.
ExecuteTool(t, svc, tool_id, user_email) ==
    /\ task[t].pc \in {"idle", "done"}
    /\ closer.pc = "running"
    /\ LET tk == [IdleTask EXCEPT !.op = "execute_tool", !.svc = svc,
                                 !.tool = tool_id, !.user = user_email]
       IN  IF tool_id \notin DOMAIN tools
           THEN \* raise ValueError("Tool not found"), re-raised by execute_tool
                /\ task' = [task EXCEPT ![t] = Finished(tk, "raised")]
                /\ UNCHANGED <<mcp_clients, clients>>
           ELSE IF ~execute_tool_access(tool_id, user_email)
           THEN \* raise ValueError("Access denied"), re-raised by execute_tool
                /\ task' = [task EXCEPT ![t] = Finished(tk, "raised")]
                /\ UNCHANGED <<mcp_clients, clients>>
           ELSE IF tools[tool_id].type = "fastmcp"
           THEN get_mcp_client(t, Granted(tk))
           ELSE \* return await self._execute_builtin_tool / _execute_external_tool
                /\ task' = [task EXCEPT ![t] = [Granted(tk) EXCEPT !.pc = "local_tool"]]
                /\ UNCHANGED <<mcp_clients, clients>>
    /\ UNCHANGED <<closer, streamVars>>

\* ToolSchemaService.execute_tool_call, to its first suspension or to its end.
ExecuteToolCall(t, svc, function_name, user_email) ==
    /\ task[t].pc \in {"idle", "done"}
    /\ closer.pc = "running"
    /\ LET parts == SplitFunctionName(function_name)
           tk == [IdleTask EXCEPT !.op = "execute_tool_call", !.svc = svc,
                                 !.tool = parts.tool_id,
                                 !.user = user_email]
       IN  IF ~parts.ok
           THEN \* raise ValueError("Invalid function name format"), caught
                /\ task' = [task EXCEPT ![t] = Finished(tk, "error")]
                /\ UNCHANGED <<mcp_clients, clients>>
           ELSE IF ~execute_tool_call_access(parts.tool_id, user_email)
           THEN \* raise ValueError("Access denied"), caught
                /\ task' = [task EXCEPT ![t] = Finished(tk, "error")]
                /\ UNCHANGED <<mcp_clients, clients>>
           ELSE get_mcp_client(t, Granted(tk))
    /\ UNCHANGED <<closer, streamVars>>

\* ToolSchemaService.get_tool_schemas_for_user for one tool id (with its call of
\* _get_schemas_for_tool), to its first suspension or to its end.
GetToolSchemas(t, svc, tool_id, user_email) ==
    /\ task[t].pc \in {"idle", "done"}
    /\ closer.pc = "running"
    /\ LET tk == [IdleTask EXCEPT !.op = "get_tool_schemas", !.svc = svc,
                                 !.tool = tool_id, !.user = user_email]
       IN  IF ~validate_tool_access(tool_id, user_email)
           THEN \* logged and skipped
                /\ task' = [task EXCEPT ![t] = Finished(tk, "empty")]
                /\ UNCHANGED <<mcp_clients, clients>>
           ELSE IF tools[tool_id].type /= "fastmcp"
           THEN \* "is not a FastMCP tool": return []
                /\ task' = [task EXCEPT ![t] = Finished(Granted(tk), "empty")]
                /\ UNCHANGED <<mcp_clients, clients>>
           ELSE get_mcp_client(t, Granted(tk))
    /\ UNCHANGED <<closer, streamVars>>

\* client.__aenter__() returns: the rest of _get_mcp_client, then the caller
\* goes on to its next await.
ConnectOk(t) ==
    /\ task[t].pc = "aenter"
    /\ clients' = [clients EXCEPT ![task[t].client].state = "open"]
    /\ mcp_clients' = [mcp_clients EXCEPT ![task[t].svc] =
            DictSet(mcp_clients[task[t].svc], task[t].tool, task[t].client)]
    /\ task' = [task EXCEPT ![t] =
            IF AfterClient(task[t].op) = "call_tool"
            THEN Dispatching(task[t])
            ELSE [task[t] EXCEPT !.pc = "list_tools"]]
    /\ UNCHANGED <<closer, streamVars>>

\* A variant that stores the client before it is connected.
CacheAfterConnectFail_Stored(cache, tk) ==
    [cache EXCEPT ![tk.svc] = DictSet(cache[tk.svc], tk.tool, tk.client)]

\* The exception of __aenter__ leaves _get_mcp_client before the assignment
\* self.mcp_clients[tool_id] = client.
CacheAfterConnectFail(cache, tk) == cache

\* client.__aenter__() raises: nothing is cached; the caller catches.
ConnectFail(t) ==
    /\ task[t].pc = "aenter"
    /\ clients' = [clients EXCEPT ![task[t].client] = FailedClient]
    /\ task' = [task EXCEPT ![t] = Finished(task[t], Caught(task[t].op))]
    /\ mcp_clients' = CacheAfterConnectFail(mcp_clients, task[t])
    /\ UNCHANGED <<closer, streamVars>>

\* client.list_tools() returns.
ListToolsDone(t) ==
    /\ task[t].pc = "list_tools"
    /\ task' = [task EXCEPT ![t] =
            IF task[t].op = "execute_tool"
            THEN IF Len(ServerTools[task[t].tool]) = 0
                 THEN Finished(task[t], "error")
                 ELSE Dispatching(task[t])     \* call_tool(available_tools[0].name)
            ELSE Finished(task[t], "success")] \* the schemas of the server's tools
    /\ UNCHANGED <<mcp_clients, clients, closer, streamVars>>

\* client.list_tools() raises.
ListToolsFail(t) ==
    /\ task[t].pc = "list_tools"
    /\ task' = [task EXCEPT ![t] = Finished(task[t], Caught(task[t].op))]
    /\ UNCHANGED <<mcp_clients, clients, closer, streamVars>>

\* client.call_tool() returns.
CallToolDone(t) ==
    /\ task[t].pc = "call_tool"
    /\ task' = [task EXCEPT ![t] = Finished(task[t], "success")]
    /\ UNCHANGED <<mcp_clients, clients, closer, streamVars>>

\* _execute_builtin_tool / _execute_external_tool returns its (mock) result.
LocalToolDone(t) ==
    /\ task[t].pc = "local_tool"
    /\ task' = [task EXCEPT ![t] = Finished(task[t], "success")]
    /\ UNCHANGED <<mcp_clients, clients, closer, streamVars>>

\* client.call_tool() raises.
CallToolFail(t) ==
    /\ task[t].pc = "call_tool"
    /\ task' = [task EXCEPT ![t] = Finished(task[t], Caught(task[t].op))]
    /\ UNCHANGED <<mcp_clients, clients, closer, streamVars>>

(***************************************************************************)
(* Shutdown: lifespan() closes the clients of every registered MCPService, *)
(* one service after the other; close_mcp_clients is suspended only in     *)
(* client.__aexit__().                                                     *)
(***************************************************************************)
\* _global_mcp_services in registration order: ChatService.__init__ constructs
\* the LLMService (and its MCPService) before its own MCPService.
RegisteredServices == << "llm", "chat" >>

\* MCPService.__init__ registers the instance through "from app.main import
\* register_mcp_service" and passes over an ImportError.  A ChatService that is
\* constructed after app.main was loaded (by a request handler, by a test) has
\* both its instances registered.  The ChatService of the websocket manager is
\* constructed while app.main is being imported (main.py:11 imports
\* api/websocket.py, whose line 98 constructs the manager), before
\* register_mcp_service is defined (main.py:19): the import fails and neither
\* of its instances is registered.
Registrations == { RegisteredServices, <<>> }

\* The shutdown path before the shutdown.  aexits (history) are the clients
\* whose __aexit__ was awaited, in order; quiet (history) is whether no operation
\* was under way when the shutdown path started.
CloserIdle(registered) ==
    [pc |-> "running", svcs |-> <<>>, todo |-> <<>>, registered |-> registered,
     aexits |-> <<>>, quiet |-> TRUE]

\* close_mcp_clients run from a point of the shutdown path to its next
\* suspension: svcs are the services still to close (the head is the current
\* one), todo the rest of the snapshot list(self.mcp_clients.items()), started
\* whether the current service's loop was entered.
RECURSIVE CloseRun(_, _, _, _, _)
CloseRun(svcs, todo, started, cache, cl) ==
    IF todo /= <<>>
    THEN IF cl[todo[1].v].state = "open"
         THEN [pc |-> "closing", svcs |-> svcs, todo |-> todo, cache |-> cache]
         ELSE CloseRun(svcs, Tail(todo), TRUE, cache, cl)   \* "already closed"
    ELSE IF started
    THEN \* self.mcp_clients.clear()
         CloseRun(Tail(svcs), <<>>, FALSE, [cache EXCEPT ![Head(svcs)] = <<>>], cl)
    ELSE IF svcs = <<>>
    THEN [pc |-> "done", svcs |-> <<>>, todo |-> <<>>, cache |-> cache]
    ELSE IF cache[Head(svcs)] = <<>>
    THEN CloseRun(Tail(svcs), <<>>, FALSE, cache, cl)        \* if not self.mcp_clients: return
    ELSE CloseRun(svcs, cache[Head(svcs)], TRUE, cache, cl)

CloserAt(c, r) == [c EXCEPT !.pc = r.pc, !.svcs = r.svcs, !.todo = r.todo]

\* The application shuts down: lifespan() after its yield.
Shutdown ==
    /\ closer.pc = "running"
    /\ LET r == CloseRun(closer.registered, <<>>, FALSE, mcp_clients, clients)
           quiet == \A t \in Tasks : task[t].pc \in {"idle", "done"}
       IN  /\ closer' = CloserAt([closer EXCEPT !.quiet = quiet], r)
           /\ mcp_clients' = r.cache
    /\ UNCHANGED <<clients, task, streamVars>>

\* A variant in which a failure of __aexit__ leaves close_mcp_clients.
AfterAexit_Propagates(closed, svcs, todo, cache, cl) ==
    IF closed
    THEN CloseRun(svcs, Tail(todo), TRUE, cache, cl)
    ELSE [pc |-> "raised", svcs |-> <<>>, todo |-> <<>>, cache |-> cache]

\* The try/except inside the loop of close_mcp_clients: whether __aexit__
\* returned or raised, the loop goes on with the rest of the snapshot.
AfterAexit(closed, svcs, todo, cache, cl) ==
    CloseRun(svcs, Tail(todo), TRUE, cache, cl)

\* client.__aexit__() returns (closed) or raises (logged, the loop goes on).
AexitDone(closed) ==
    /\ closer.pc = "closing"
    /\ LET c == closer.todo[1].v
           cl == IF closed THEN [clients EXCEPT ![c].state = "closed"] ELSE clients
           r == AfterAexit(closed, closer.svcs, closer.todo, mcp_clients, cl)
       IN  /\ clients' = cl
           /\ closer' = CloserAt([closer EXCEPT !.aexits = Append(@, c)], r)
           /\ mcp_clients' = r.cache
    /\ UNCHANGED <<task, streamVars>>

\* close_mcp_clients of one instance is called once more after the shutdown.
CloseAgain(svc) ==
    /\ closer.pc = "done"
    /\ LET r == CloseRun(<<svc>>, <<>>, FALSE, mcp_clients, clients)
       IN  /\ closer' = CloserAt(closer, r)
           /\ mcp_clients' = r.cache
    /\ UNCHANGED <<clients, task, streamVars>>

(***************************************************************************)
(* The pool specification.                                                 *)
(***************************************************************************)
\* No websocket: the turn is driven by another caller, nothing is sent.
NoSocket ==
    [accepted |-> FALSE, open |-> FALSE, sent |-> <<>>, handled |-> 0, handler |-> "none"]

\* No request failed, no tool selected, nothing stored yet.
TurnIdle ==
    /\ failure = "none"
    /\ ws = NoSocket
    /\ selected_tools = <<>>
    /\ validated = <<>>
    /\ tools_select_could_used = <<>>
    /\ tool_schemas = <<>>
    /\ call_log = <<>>
    /\ turns = [u \in Users |-> 0]

StreamIdle ==
    /\ received = <<>>
    /\ tool_calls_buffer = <<>>
    /\ stream = "idle"
    /\ pending = <<>>
    /\ rounds = 0
    /\ executions = <<>>
    /\ yielded = <<>>
    /\ response_chunks = <<>>
    /\ delivered = <<>>
    /\ chat_history = [u \in Users |-> <<>>]
    /\ turn_user = "none"
    /\ message = <<>>
    /\ llm_provider = "none"
    /\ adapter_calls = 0
    /\ TurnIdle

InitPool ==
    /\ mcp_clients = [s \in Services |-> <<>>]
    /\ clients = <<>>
    /\ task = [t \in Tasks |-> IdleTask]
    /\ closer \in { CloserIdle(registered) : registered \in Registrations }
    /\ StreamIdle

NextPool ==
    \/ \E t \in Tasks, svc \in Services, tool_id \in ToolIdInputs, u \in Users :
           ExecuteTool(t, svc, tool_id, u)
    \/ \E t \in Tasks, svc \in Services, fn \in FunctionNameInputs, u \in Users :
           ExecuteToolCall(t, svc, fn, u)
    \/ \E t \in Tasks, tool_id \in ToolIdInputs, u \in Users :
           GetToolSchemas(t, "chat", tool_id, u)
    \/ \E t \in Tasks : ConnectOk(t)
    \/ \E t \in Tasks : ConnectFail(t)
    \/ \E t \in Tasks : ListToolsDone(t)
    \/ \E t \in Tasks : ListToolsFail(t)
    \/ \E t \in Tasks : CallToolDone(t)
    \/ \E t \in Tasks : CallToolFail(t)
    \/ \E t \in Tasks : LocalToolDone(t)
    \/ Shutdown
    \/ \E closed \in BOOLEAN : AexitDone(closed)

SpecPool == InitPool /\ [][NextPool]_vars

\* The pool with further calls of close_mcp_clients after the shutdown path
\* (on an instance the shutdown path has closed, or on one it did not know).
\* The caches are filled by execute_tool_call, on either instance.
NextClose ==
    \/ \E t \in Tasks, svc \in Services, fn \in FunctionNameInputs, u \in Users :
           ExecuteToolCall(t, svc, fn, u)
    \/ \E t \in Tasks : ConnectOk(t)
    \/ \E t \in Tasks : ConnectFail(t)
    \/ \E t \in Tasks : CallToolDone(t)
    \/ \E t \in Tasks : CallToolFail(t)
    \/ Shutdown
    \/ \E closed \in BOOLEAN : AexitDone(closed)
    \/ \E svc \in Services : CloseAgain(svc)

SpecClose == InitPool /\ [][NextClose]_vars

(***************************************************************************)
(* The OpenAI-style provider stream.  A JSON field is a record: has says   *)
(* whether the key is present, null whether its value is JSON null, s is   *)
(* its text.                                                               *)
(***************************************************************************)
NoField == [has |-> FALSE, null |-> FALSE, s |-> <<>>]
NullField == [has |-> TRUE, null |-> TRUE, s |-> <<>>]
Str(text) == [has |-> TRUE, null |-> FALSE, s |-> text]

\* One element of delta.tool_calls: index is -1 when the key is absent.
TD(index, id, name, arguments) ==
    [index |-> index, id |-> id, name |-> name, arguments |-> arguments]

\* A "data: " line holding a JSON object: choices says whether data['choices']
\* is present and non-empty, finish is choices[0].finish_reason ("none" when
\* absent or null).
Ev(content, tool_calls, finish) ==
    [k |-> "event", choices |-> TRUE, content |-> content,
     tool_calls |-> tool_calls, finish |-> finish]

OtherLine == [k |-> "other", choices |-> FALSE, content |-> NoField,
              tool_calls |-> <<>>, finish |-> "none"]
BadLine == [OtherLine EXCEPT !.k = "bad"]          \* "data: " + text that is no JSON
DoneLine == [OtherLine EXCEPT !.k = "done"]        \* "data: [DONE]"
NoChoices == [OtherLine EXCEPT !.k = "event"]      \* "data: " + JSON without choices

FS_r == FS \o <<"_", "r">>
AD_r == AD \o <<"_", "r">>

\* The lines a provider body is made of in the model.
ProviderLines ==
    { OtherLine, BadLine, DoneLine, NoChoices }
    \cup { Ev(Str(<<c>>), <<>>, "none") : c \in {"h", "i"} }
    \cup { Ev(NullField, << TD(i, Str(<<"c">>), Str(FS \o <<"_">>), Str(<<>>)) >>, "none") :
             i \in {0, 1} }
    \cup { Ev(NoField, << TD(i, NoField, Str(<<"r">>), Str(<<"{">>)) >>, "none") :
             i \in {0, 1} }
    \cup { Ev(NoField, << TD(i, NoField, NoField, Str(<<"}">>)) >>, "none") : i \in {0, 1} }
    \cup { Ev(NoField, << TD(-1, Str(<<"c">>), NoField, Str(<<"}">>)) >>, "none"),
           Ev(Str(<<"h">>),
              << TD(1, Str(<<"c">>), Str(AD_r), Str(<<"{", "}">>)),
                 TD(0, Str(<<"c">>), Str(FS_r), Str(<<"{">>)) >>, "none"),
           Ev(NoField,
              << TD(0, Str(<<"c">>), Str(FS_r), Str(<<"{", "}">>)),
                 TD(1, Str(<<"c">>), Str(FS_r), Str(<<"{">>)),
                 TD(2, Str(<<"c">>), Str(FS_r), Str(<<"{", "}">>)) >>, "none"),
           Ev(NoField, <<>>, "tool_calls"),
           Ev(NoField, <<>>, "stop"),
           Ev(NoField, << TD(0, NoField, NoField, Str(<<"}">>)) >>, "tool_calls") }

\* json.loads(arguments) succeeds: over the characters "{" and "}" the only
\* JSON text is "{}".
JsonValid(text) == text = <<"{", "}">>

(***************************************************************************)
(* The tool-call accumulator of _stream_openai.                            *)
(***************************************************************************)
EmptyCall == [id |-> <<>>, name |-> <<>>, arguments |-> <<>>]

\* tool_call_delta.get('index', 0)
DeltaIndex(td) == IF td.index = -1 THEN 0 ELSE td.index

\* The text a "+=" appends for a field: nothing when the key is absent.
Fragment(field) == IF field.has THEN field.s ELSE <<>>

Accumulate_Overwrite(buffer, td) ==
    LET index == DeltaIndex(td)
        b == IF DictHas(buffer, index) THEN buffer
             ELSE Append(buffer, [k |-> index, v |-> EmptyCall])
        old == DictGet(b, index)
    IN  DictSet(b, index,
            [id |-> old.id \o Fragment(td.id),
             name |-> old.name \o Fragment(td.name),
             arguments |-> IF td.arguments.has THEN td.arguments.s ELSE old.arguments])

\* One tool_call_delta merged into tool_calls_buffer.
Accumulate(buffer, td) ==
    LET index == DeltaIndex(td)
        b == IF DictHas(buffer, index) THEN buffer
             ELSE Append(buffer, [k |-> index, v |-> EmptyCall])
        old == DictGet(b, index)
    IN  DictSet(b, index,
            [id |-> old.id \o Fragment(td.id),
             name |-> old.name \o Fragment(td.name),
             arguments |-> old.arguments \o Fragment(td.arguments)])

\* for tool_call_delta in delta['tool_calls']
RECURSIVE AccumulateAll(_, _)
AccumulateAll(buffer, tds) ==
    IF tds = <<>> THEN buffer
    ELSE AccumulateAll(Accumulate(buffer, Head(tds)), Tail(tds))

\* if finish_reason == 'tool_calls' and tool_calls_buffer
ShouldExecute_AnyFinish(finish, buffer) == finish /= "none" /\ buffer /= <<>>

ShouldExecute(finish, buffer) == finish = "tool_calls" /\ buffer /= <<>>

(***************************************************************************)
(* Chunks.  A chunk is the value yielded together with the yield statement *)
(* it comes from (site) and, for the chunks about a tool call, the         *)
(* accumulator index and the round of that call.                           *)
(***************************************************************************)
Chunk(site, val, index, round, ok) ==
    [site |-> site, val |-> val, index |-> index, round |-> round, ok |-> ok]

\* if 'content' in delta: yield delta['content']
EventChunks_ForwardDeltas(line) ==
    (IF line.content.has THEN << Chunk("text", line.content, -1, 0, TRUE) >> ELSE <<>>)
    \o [i \in 1..Len(line.tool_calls) |->
            Chunk("text", line.tool_calls[i].arguments, -1, 0, TRUE)]

EventChunks(line) ==
    IF line.content.has THEN << Chunk("text", line.content, -1, 0, TRUE) >> ELSE <<>>

\* The state of the line loop after "data: [DONE]": break.
AfterDone_Continue == "reading"

AfterDone == "ended"

\* A variant in which a line that is no JSON ends the stream.
AfterBadLine_EndsStream(position) == "ended"

\* except json.JSONDecodeError: continue -- the loop goes on to the next line.
AfterBadLine(position) == position

(***************************************************************************)
(* _execute_and_stream_tool_calls.                                         *)
(***************************************************************************)
\* A variant that visits the calls by ascending index instead of dict order.
RECURSIVE SortedByIndex(_)
SortedByIndex(buffer) ==
    IF buffer = <<>> THEN <<>>
    ELSE LET m == CHOOSE i \in 1..Len(buffer) :
                      \A j \in 1..Len(buffer) : buffer[i].k <= buffer[j].k
         IN  << buffer[m] >> \o
             SortedByIndex(SubSeq(buffer, 1, m - 1) \o SubSeq(buffer, m + 1, Len(buffer)))

\* tool_calls_buffer.values(): the calls in dict (insertion) order.
BufferValues(buffer) == buffer

ArgsValid(entry) == JsonValid(entry.v.arguments)
ArgsInvalid(entry) == ~JsonValid(entry.v.arguments)

\* A variant that gives up on the whole batch when one call does not parse.
ToolCalls_AbortOnInvalid(buffer) ==
    IF \E i \in 1..Len(buffer) : ArgsInvalid(buffer[i])
    THEN <<>>
    ELSE BufferValues(buffer)

ToolCalls(buffer) == SelectSeq(BufferValues(buffer), ArgsValid)

\* The first loop: one "Invalid tool arguments" chunk per call that does not parse.
ArgErrorChunks(buffer, round) ==
    LET bad == SelectSeq(BufferValues(buffer), ArgsInvalid)
    IN  [i \in 1..Len(bad) |-> Chunk("arg_error", Str(bad[i].v.name), bad[i].k, round, FALSE)]

\* The "Tool:" and "Arguments:" chunks of a call.
CallInfoChunks(call, round) ==
    << Chunk("tool", Str(call.v.name), call.k, round, TRUE),
       Chunk("arguments", Str(call.v.arguments), call.k, round, TRUE) >>

\* An execute_tool_call invocation that has started.
Started(call, round) ==
    [round |-> round, index |-> call.k, name |-> call.v.name,
     arguments |-> call.v.arguments, done |-> FALSE, success |-> FALSE]

\* ToolSchemaService.execute_tool_call run to its end on the LLMService's
\* MCPService for the streaming turn.  env is what the tool server does:
\* "ok", "connect_fail" (__aenter__ raises) or "call_fail" (call_tool raises).
\* needs_server: the call gets as far as the pool; connects: a client is created.
ToolCallRunOn(svc, function_name, user_email, env) ==
    LET parts == SplitFunctionName(function_name)
        granted == parts.ok /\ execute_tool_call_access(parts.tool_id, user_email)
        cached == granted /\ DictHas(mcp_clients[svc], parts.tool_id)
        reach == granted /\ (cached \/ tools[parts.tool_id].server_path)
        connected == reach /\ ~cached /\ env /= "connect_fail"
    IN  [tool_id |-> parts.tool_id,
         reach |-> reach,
         cached |-> cached,
         connected |-> connected,
         success |-> reach /\ env = "ok"]

\* The streaming turn executes its tool calls through LLMService's
\* tool_schema_service, that is on LLMService's MCPService.
ToolCallRun(function_name, user_email, env) ==
    ToolCallRunOn("llm", function_name, user_email, env)

\* The outcomes the tool server can have for a call.
EnvForOn(svc, function_name, user_email) ==
    LET r == ToolCallRunOn(svc, function_name, user_email, "ok")
    IN  IF ~r.reach THEN {"ok"}
        ELSE IF r.cached THEN {"ok", "call_fail"}
        ELSE {"ok", "connect_fail", "call_fail"}

EnvFor(function_name, user_email) == EnvForOn("llm", function_name, user_email)

(***************************************************************************)
(* The streaming turn: ChatService.process_message_stream driving          *)
(* LLMService.generate_response_stream / _stream_openai.                   *)
(***************************************************************************)
HistoryCap == 100

\* The messages handle_chat_message sends: part is the key that is set
\* ("start", "content", "end") or "error" for a chat_error message.
NoChunk == Chunk("none", NoField, -1, 0, TRUE)
WsMessage(type, part, content) == [type |-> type, part |-> part, content |-> content]

\* A variant that sends on the socket without looking at the connection table.
Send_Unchecked(socket, msgs) == [socket EXCEPT !.sent = @ \o msgs]

\* ConnectionManager.send_message: nothing is sent once the client is no longer
\* among the active connections.
Send(socket, msgs) == IF socket.open THEN [socket EXCEPT !.sent = @ \o msgs] ELSE socket

\* The loop of handle_chat_message sends every chunk it receives.
Forward(socket, out) ==
    Send(socket, [i \in 1..Len(out) |-> WsMessage("chat_stream", "content", out[i])])

\* A yield of the adapter travels up through generate_response_stream to
\* process_message_stream, which appends it to response_chunks and yields it
\* to its caller.
Emit(out) ==
    /\ yielded' = yielded \o out
    /\ response_chunks' = response_chunks \o out
    /\ delivered' = delivered \o out
    /\ ws' = Forward(ws, out)

\* One line of response.aiter_lines() is read and handled, up to the next
\* suspension (the next line, or the first execute_tool_call).
ReadLine(line) ==
    /\ stream = "reading"
    /\ Len(received) < MaxLines
    /\ received' = Append(received, line)
    /\ IF line.k = "done"
       THEN /\ stream' = AfterDone
            /\ Emit(<<>>)
            /\ UNCHANGED <<tool_calls_buffer, pending, rounds, executions>>
       ELSE IF line.k = "event" /\ line.choices
       THEN LET buffer == AccumulateAll(tool_calls_buffer, line.tool_calls)
                round == rounds + 1
                calls == ToolCalls(buffer)
            IN  /\ tool_calls_buffer' = buffer
                /\ IF ~ShouldExecute(line.finish, buffer)
                   THEN /\ Emit(EventChunks(line))
                        /\ UNCHANGED <<stream, pending, rounds, executions>>
                   ELSE IF calls = <<>>
                   THEN \* if not tool_calls: return
                        /\ Emit(EventChunks(line) \o ArgErrorChunks(buffer, round))
                        /\ rounds' = round
                        /\ UNCHANGED <<stream, pending, executions>>
                   ELSE /\ Emit(EventChunks(line) \o ArgErrorChunks(buffer, round)
                                \o << Chunk("header", Str(<<"#">>), -1, round, TRUE) >>
                                \o CallInfoChunks(calls[1], round))
                        /\ rounds' = round
                        /\ pending' = calls
                        /\ executions' = Append(executions, Started(calls[1], round))
                        /\ stream' = "executing"
       ELSE \* no "data: " prefix, no JSON, or no choices: nothing happens
            /\ Emit(<<>>)
            /\ stream' = IF line.k = "bad" THEN AfterBadLine(stream) ELSE stream
            /\ UNCHANGED <<tool_calls_buffer, pending, rounds, executions>>
    /\ UNCHANGED <<poolVars, chat_history, turnVars, failure, turns>>

\* The awaited execute_tool_call of the first pending call returns; its result
\* is yielded and the loop goes on to the next call or ends.
ExecOne(env) ==
    /\ stream = "executing"
    /\ env \in EnvFor(pending[1].v.name, turn_user)
    /\ LET call == pending[1]
           r == ToolCallRun(call.v.name, turn_user, env)
           n == Len(executions)
           finished == [executions EXCEPT ![n].done = TRUE, ![n].success = r.success]
           result == Chunk("result", Str(call.v.name), call.k, executions[n].round, r.success)
           rest == Tail(pending)
       IN  /\ IF r.connected
              THEN /\ clients' = Append(clients,
                          [tool |-> r.tool_id, svc |-> "llm", state |-> "open"])
                   /\ mcp_clients' = [mcp_clients EXCEPT !["llm"] =
                          DictSet(mcp_clients["llm"], r.tool_id, Len(clients) + 1)]
              ELSE UNCHANGED <<mcp_clients, clients>>
           /\ pending' = rest
           /\ IF rest /= <<>>
              THEN /\ Emit(<< result >> \o CallInfoChunks(rest[1], executions[n].round))
                   /\ executions' = Append(finished, Started(rest[1], executions[n].round))
                   /\ UNCHANGED stream
              ELSE /\ Emit(<< result, Chunk("completed", Str(<<"#">>), -1,
                                            executions[n].round, TRUE) >>)
                   /\ executions' = finished
                   /\ stream' = "reading"
    /\ UNCHANGED <<task, closer, received, tool_calls_buffer, rounds, chat_history,
                   turnVars, failure, turns>>

\* response.aiter_lines() is exhausted: the body ended without "[DONE]"
\* (without a done record for Ollama).
EndOfBody ==
    /\ stream \in {"reading", "ollama_reading"}
    /\ stream' = "ended"
    /\ UNCHANGED <<poolVars, received, tool_calls_buffer, pending, rounds, executions,
                   yielded, response_chunks, delivered, ws, chat_history, turnVars, failure,
                   turns>>

\* The failures of the provider request: an unsupported provider family (the
\* else branch of _real_llm_stream), a non-2xx status (raise_for_status) and a
\* connection error.
FailureKinds == {"unsupported", "status", "connection"}

\* A variant in which the exception leaves the generator.
OnProviderFailure_Raised(kind) == [chunks |-> <<>>, position |-> "raised"]

\* except Exception of _real_llm_stream: one "Error: ..." chunk is yielded and
\* the generator returns.
OnProviderFailure(kind) ==
    [chunks |-> << Chunk("error", Str(<<"!">>), -1, 0, FALSE) >>, position |-> "ended"]

\* The provider request fails.  The family and the status are known before the
\* first line; the connection can break at any line.
StreamError(kind) ==
    /\ stream \in {"reading", "ollama_reading"}
    /\ kind /= "connection" => received = <<>>
    /\ failure' = kind
    /\ stream' = OnProviderFailure(kind).position
    /\ Emit(OnProviderFailure(kind).chunks)
    /\ UNCHANGED <<poolVars, received, tool_calls_buffer, pending, rounds, executions,
                   chat_history, turnVars, turns>>

\* A variant that keeps the text of the provider only.
Truthy_OnlyText(chunk) ==
    chunk.site = "text" /\ ~chunk.val.null /\ chunk.val.s /= <<>>

\* [chunk for chunk in response_chunks if chunk]
Truthy(chunk) == ~(chunk.site = "text" /\ (chunk.val.null \/ chunk.val.s = <<>>))

\* The text of a chunk: the provider's text, or the formatted block that the
\* yield statement of its site builds around the value.
ChunkText(chunk) ==
    IF chunk.site = "text" THEN chunk.val.s
    ELSE << "[", chunk.site, ":" >> \o chunk.val.s \o << "]" >>

\* A variant that keeps the last chunk only.
Join_LastChunk(chunks) ==
    IF chunks = <<>> THEN <<>> ELSE ChunkText(chunks[Len(chunks)])

\* ''.join(clean_chunks)
RECURSIVE Join(_)
Join(chunks) ==
    IF chunks = <<>> THEN <<>> ELSE ChunkText(Head(chunks)) \o Join(Tail(chunks))

\* A variant that evicts the newest entries.
StoreChatEntry_KeepOldest(history, entry) ==
    LET h == Append(history, entry)
    IN  IF Len(h) > HistoryCap THEN SubSeq(h, 1, HistoryCap) ELSE h

\* ChatService._store_chat_entry
StoreChatEntry(history, entry) ==
    LET h == Append(history, entry)
    IN  IF Len(h) > HistoryCap THEN SubSeq(h, Len(h) - HistoryCap + 1, Len(h)) ELSE h

\* The stream is exhausted: process_message_stream joins the chunks and stores
\* the turn.
Finalize ==
    /\ stream = "ended"
    /\ stream' = "stored"
    /\ chat_history' = [chat_history EXCEPT ![turn_user] =
            StoreChatEntry(chat_history[turn_user],
                [user_message |-> message,
                 assistant_response |-> Join(SelectSeq(response_chunks, Truthy)),
                 provider |-> llm_provider,
                 tools_used |-> tools_select_could_used])]
    /\ turns' = [turns EXCEPT ![turn_user] = @ + 1]
    /\ UNCHANGED <<poolVars, received, tool_calls_buffer, pending, rounds, executions,
                   yielded, response_chunks, delivered, ws, turnVars, failure>>

(***************************************************************************)
(* LLMService._stream_ollama: every line of the body is a JSON object with *)
(* an optional response text and an optional done flag.  A line is kept in *)
(* the record shape of the provider lines: content is data['response'],    *)
(* finish is "done" when data.get('done', False) is true.                  *)
(***************************************************************************)
OL(response, done) ==
    [OtherLine EXCEPT !.k = "ollama", !.content = response,
                      !.finish = IF done THEN "done" ELSE "none"]

OllamaLines ==
    { BadLine }
    \cup { OL(Str(<<c>>), FALSE) : c \in {"h", "i"} }
    \cup { OL(NoField, FALSE), OL(NoField, TRUE), OL(Str(<<"i">>), TRUE) }

\* One iteration of _stream_ollama's line loop.
OllamaReadLine(line) ==
    /\ stream = "ollama_reading"
    /\ Len(received) < MaxLines
    /\ received' = Append(received, line)
    /\ IF line.k = "bad"
       THEN /\ Emit(<<>>)
            /\ stream' = AfterBadLine(stream)
       ELSE /\ Emit(IF line.content.has
                    THEN << Chunk("text", line.content, -1, 0, TRUE) >> ELSE <<>>)
            /\ stream' = IF line.finish = "done" THEN "ended" ELSE stream
    /\ UNCHANGED <<poolVars, tool_calls_buffer, pending, rounds, executions,
                   chat_history, turnVars, failure, turns>>

InitStream ==
    /\ mcp_clients = [s \in Services |-> <<>>]
    /\ clients = <<>>
    /\ task = [t \in Tasks |-> IdleTask]
    /\ closer = CloserIdle(<<>>)
    /\ received = <<>>
    /\ tool_calls_buffer = <<>>
    /\ stream = "reading"
    /\ pending = <<>>
    /\ rounds = 0
    /\ executions = <<>>
    /\ yielded = <<>>
    /\ response_chunks = <<>>
    /\ delivered = <<>>
    /\ chat_history = [u \in Users |-> <<>>]
    /\ turn_user \in Users
    /\ message = <<"m">>
    /\ llm_provider = "p1"
    /\ adapter_calls = 1
    /\ TurnIdle

NextStream ==
    \/ \E line \in ProviderLines : ReadLine(line)
    \/ \E env \in {"ok", "connect_fail", "call_fail"} : ExecOne(env)
    \/ EndOfBody
    \/ \E kind \in FailureKinds : StreamError(kind)
    \/ Finalize

SpecStream == InitStream /\ [][NextStream]_vars

\* The streaming turn over either provider family: _real_llm_stream dispatches
\* on provider['provider'].
InitAdapters ==
    /\ mcp_clients = [s \in Services |-> <<>>]
    /\ clients = <<>>
    /\ task = [t \in Tasks |-> IdleTask]
    /\ closer = CloserIdle(<<>>)
    /\ received = <<>>
    /\ tool_calls_buffer = <<>>
    /\ \/ stream = "reading" /\ llm_provider = "p1"
       \/ stream = "ollama_reading" /\ llm_provider = "p4"
    /\ pending = <<>>
    /\ rounds = 0
    /\ executions = <<>>
    /\ yielded = <<>>
    /\ response_chunks = <<>>
    /\ delivered = <<>>
    /\ chat_history = [u \in Users |-> <<>>]
    /\ turn_user \in Users
    /\ message = <<"m">>
    /\ adapter_calls = 1
    /\ TurnIdle

NextAdapters ==
    \/ NextStream
    \/ \E line \in OllamaLines : OllamaReadLine(line)

SpecAdapters == InitAdapters /\ [][NextAdapters]_vars

(***************************************************************************)
(* The schema translator's namespacing (ToolSchemaService).  The tool ids  *)
(* and the function names of the tool servers are inputs of the program:   *)
(* a tool id is the id of tool.json or the name of the tool's directory    *)
(* (the shipped directories are ddg_search, filesystem, linear_regression),*)
(* a function name is whatever the server exposes.                         *)
(***************************************************************************)
\* f"{tool_id}_{tool_name}"
SchemaName(tool_id, tool_name) == tool_id \o <<"_">> \o tool_name

\* _convert_mcp_tool_to_llm_schema: the function name and the _mcp_metadata.
convert_mcp_tool_to_llm_schema(tool_name, tool_id) ==
    [name |-> SchemaName(tool_id, tool_name),
     tool_id |-> tool_id, server_tool_name |-> tool_name]

NamespaceToolIds == { <<"d">>, <<"d", "_", "s">>, <<"f">> }
NamespaceToolNames == { <<"r">>, <<"s", "_", "r">> }

\* _get_schemas_for_tool appends the schema of one function of one tool server.
ConvertTool(tool_id, tool_name) ==
    /\ Len(tool_schemas) < MaxSchemas
    /\ \A i \in 1..Len(tool_schemas) :
           ~(tool_schemas[i].tool_id = tool_id
             /\ tool_schemas[i].server_tool_name = tool_name)
    /\ tool_schemas' = Append(tool_schemas,
                              convert_mcp_tool_to_llm_schema(tool_name, tool_id))
    /\ UNCHANGED <<poolVars, ioVars, chat_history, turn_user, message, llm_provider,
                   adapter_calls, failure, selected_tools,
                   validated, tools_select_could_used, call_log, turns>>

\* execute_tool_call is called with the function name of the i-th schema: the
\* tool id whose client is used and the function invoked on it.
ResolveCall(i) ==
    /\ Len(call_log) < MaxCalls
    /\ i \in 1..Len(tool_schemas)
    /\ LET parts == SplitFunctionName(tool_schemas[i].name)
       IN  call_log' = Append(call_log,
               [op |-> "execute_tool_call", schema |-> i,
                function_name |-> tool_schemas[i].name,
                tool_id |-> parts.tool_id,
                server_tool_name |-> parts.server_tool_name])
    /\ UNCHANGED <<poolVars, ioVars, chat_history, turn_user, message, llm_provider,
                   adapter_calls, failure, selected_tools,
                   validated, tools_select_could_used, tool_schemas, turns>>

InitNames == InitPool

NextNames ==
    \/ \E tool_id \in NamespaceToolIds, tool_name \in NamespaceToolNames :
           ConvertTool(tool_id, tool_name)
    \/ \E i \in 1..MaxSchemas : ResolveCall(i)

SpecNames == InitNames /\ [][NextNames]_vars

(***************************************************************************)
(* Access validation (MCPService.validate_tool_access,                     *)
(* LLMService.validate_provider_access) and the start of a streaming turn  *)
(* (ChatService.process_message_stream up to the provider request).        *)
(***************************************************************************)
X == <<"x">>        \* a tool id that is not registered

\* A variant that leaves the unregistered ids out of the result.
Validations_DropUnknown(tool_ids, user_email) ==
    LET known == SelectSeq(tool_ids, LAMBDA id : id \in DOMAIN tools)
    IN  [i \in 1..Len(known) |->
            [tool_id |-> known[i],
             has_access |-> is_user_in_group(user_email, tools[known[i]].required_group),
             reason |-> "Access granted"]]

\* A variant whose answer depends on the client cache.
Validations_WhileNotConnected(tool_ids, user_email) ==
    [i \in 1..Len(tool_ids) |->
        [tool_id |-> tool_ids[i],
         has_access |-> /\ tool_ids[i] \in DOMAIN tools
                        /\ is_user_in_group(user_email, tools[tool_ids[i]].required_group)
                        /\ ~DictHas(mcp_clients["chat"], tool_ids[i]),
         reason |-> "Access granted"]]

\* MCPService.validate_tool_access: one record per requested id, in order.
Validations(tool_ids, user_email) ==
    [i \in 1..Len(tool_ids) |->
        IF tool_ids[i] \notin DOMAIN tools
        THEN [tool_id |-> tool_ids[i], has_access |-> FALSE, reason |-> "Tool not found"]
        ELSE LET has_access ==
                     is_user_in_group(user_email, tools[tool_ids[i]].required_group)
             IN  [tool_id |-> tool_ids[i], has_access |-> has_access,
                  reason |-> IF has_access THEN "Access granted" ELSE "Requires group"]]

\* LLMService.providers as loaded from the models configuration (an input of
\* the program): provider id -> required group, availability, family.
providers ==
    ( "p1" :> [required_group |-> "default",   available |-> TRUE,  provider |-> "openai"] ) @@
    ( "p2" :> [required_group |-> "mcp_users", available |-> TRUE,  provider |-> "ollama"] ) @@
    ( "p3" :> [required_group |-> "default",   available |-> FALSE, provider |-> "openai"] ) @@
    ( "p4" :> [required_group |-> "default",   available |-> TRUE,  provider |-> "ollama"] )

ProviderIdInputs == DOMAIN providers \cup {"p0"}

\* A variant that reports the group membership only.
validate_provider_access_GroupOnly(provider_id, user_email) ==
    [provider_id |-> provider_id,
     has_access |-> /\ provider_id \in DOMAIN providers
                    /\ is_user_in_group(user_email, providers[provider_id].required_group),
     reason |-> "Access granted"]

\* LLMService.validate_provider_access
validate_provider_access(provider_id, user_email) ==
    IF provider_id \notin DOMAIN providers
    THEN [provider_id |-> provider_id, has_access |-> FALSE,
          reason |-> "Provider not found"]
    ELSE LET has_access ==
                 is_user_in_group(user_email, providers[provider_id].required_group)
         IN  [provider_id |-> provider_id,
              has_access |-> has_access /\ providers[provider_id].available,
              reason |-> IF has_access THEN "Access granted" ELSE "Requires group"]

\* A variant that keeps every validated id.
Authorized_All(validations) ==
    [i \in 1..Len(validations) |-> validations[i].tool_id]

\* [t['tool_id'] for t in validated_tools if t['has_access']]
Authorized(validations) ==
    LET granted == SelectSeq(validations, LAMBDA t : t.has_access)
    IN  [i \in 1..Len(granted) |-> granted[i].tool_id]

\* The selections of tools a turn is submitted with.
TurnSelections == { <<>>, <<FS>>, <<AD, FS>>, <<X, BI, DS>>, <<FS, FS>> }

\* process_message_stream validates the selected tools and keeps the
\* authorized ones.
StartTurn(tools_in) ==
    /\ stream = "start"
    /\ selected_tools' = tools_in
    /\ validated' = IF tools_in /= <<>> THEN Validations(tools_in, turn_user) ELSE <<>>
    /\ tools_select_could_used' =
           IF tools_in /= <<>> THEN Authorized(Validations(tools_in, turn_user)) ELSE <<>>
    /\ stream' = "schemas"
    /\ UNCHANGED <<poolVars, received, tool_calls_buffer, pending, rounds, executions,
                   yielded, response_chunks, delivered, ws, chat_history, turn_user,
                   message, llm_provider, adapter_calls, failure,
                   tool_schemas, call_log, turns>>

\* The access check of get_tool_schemas_for_user for one tool id.
get_tool_schemas_access(tool_id, user_email) ==
    LET validations == Validations(<<tool_id>>, user_email)
    IN  validations /= <<>> /\ validations[1].has_access

\* get_tool_schemas_for_user on ChatService's pool, run to its end.  envs[i] is
\* what the server of the i-th tool does: "ok", "connect_fail" (__aenter__
\* raises) or "list_fail" (list_tools raises); _get_schemas_for_tool turns a
\* failure into an empty list.  acc holds the schemas, the cache and the clients.
RECURSIVE SchemaRun(_, _, _, _)
SchemaRun(tool_ids, user_email, envs, acc) ==
    IF tool_ids = <<>> THEN acc
    ELSE LET tool_id == Head(tool_ids)
             env == Head(envs)
             cached == DictHas(acc.cache, tool_id)
             connected ==
                 IF cached THEN acc
                 ELSE [acc EXCEPT
                          !.clients = Append(@, [tool |-> tool_id, svc |-> "chat",
                                                 state |-> "open"]),
                          !.cache = DictSet(@, tool_id, Len(acc.clients) + 1)]
             next ==
                 IF ~get_tool_schemas_access(tool_id, user_email) THEN acc
                 ELSE IF tools[tool_id].type /= "fastmcp" THEN acc
                 ELSE IF ~cached /\ (~tools[tool_id].server_path \/ env = "connect_fail")
                 THEN acc
                 ELSE IF env = "list_fail" THEN connected
                 ELSE [connected EXCEPT !.schemas = @ \o
                          [i \in 1..Len(ServerTools[tool_id]) |->
                              convert_mcp_tool_to_llm_schema(ServerTools[tool_id][i],
                                                             tool_id)]]
         IN  SchemaRun(Tail(tool_ids), user_email, Tail(envs), next)

SchemaEnvs(n) == [1..n -> {"ok", "connect_fail", "list_fail"}]

\* process_message_stream gets the schemas of the authorized tools and goes on
\* to generate_response_stream.
GetSchemas(envs) ==
    /\ stream = "schemas"
    /\ envs \in SchemaEnvs(Len(tools_select_could_used))
    /\ LET run == SchemaRun(tools_select_could_used, turn_user, envs,
                            [schemas |-> <<>>, cache |-> mcp_clients["chat"],
                             clients |-> clients])
       IN  /\ tool_schemas' = run.schemas
           /\ mcp_clients' = [mcp_clients EXCEPT !["chat"] = run.cache]
           /\ clients' = run.clients
    /\ stream' = "request"
    /\ UNCHANGED <<task, closer, received, tool_calls_buffer, pending, rounds, executions,
                   yielded, response_chunks, delivered, ws, chat_history, turn_user,
                   message, llm_provider, adapter_calls, failure,
                   selected_tools, validated, tools_select_could_used, call_log, turns>>

\* A variant that looks the provider up and checks nothing else.
generate_response_access_Skipped(provider_id, user_email) ==
    provider_id \in DOMAIN providers

\* The checks of generate_response_stream (and generate_response) before the
\* adapter is called: the provider is registered, the user is in its required
\* group and it is available.
generate_response_access(provider_id, user_email) ==
    /\ provider_id \in DOMAIN providers
    /\ is_user_in_group(user_email, providers[provider_id].required_group)
    /\ providers[provider_id].available

\* generate_response_stream up to the first line of the provider: a failed
\* check raises ValueError, which its except clause turns into one error chunk;
\* otherwise _real_llm_stream calls the adapter of the provider's family.
GenerateResponseStream ==
    /\ stream = "request"
    /\ ws.handler /= "send_message"
    /\ IF ~generate_response_access(llm_provider, turn_user)
       THEN /\ failure' = "denied"
            /\ stream' = "ended"
            /\ Emit(<< Chunk("error", Str(<<"!">>), -1, 0, FALSE) >>)
            /\ UNCHANGED adapter_calls
       ELSE /\ adapter_calls' = adapter_calls + 1
            /\ stream' = IF providers[llm_provider].provider = "ollama"
                         THEN "ollama_reading" ELSE "reading"
            /\ Emit(<<>>)
            /\ UNCHANGED failure
    /\ UNCHANGED <<poolVars, received, tool_calls_buffer, pending, rounds, executions,
                   chat_history, turn_user, selected_tools, validated,
                   tools_select_could_used, tool_schemas, call_log, message, llm_provider,
                   turns>>

\* The provider lines of the turn specification: text, the end of the stream,
\* and events that carry complete tool calls of functions of the servers f and a.
TurnLines ==
    { Ev(Str(<<"h">>), <<>>, "none"), DoneLine }
    \cup { Ev(NoField, << TD(0, Str(<<"c">>), Str(FS_r), Str(<<"{", "}">>)) >>,
              "tool_calls"),
           Ev(NoField, << TD(0, Str(<<"c">>), Str(AD_r), Str(<<"{", "}">>)),
                          TD(1, Str(<<"c">>), Str(FS_r), Str(<<"{", "}">>)) >>,
              "tool_calls") }

InitTurn ==
    /\ mcp_clients = [s \in Services |-> <<>>]
    /\ clients = <<>>
    /\ task = [t \in Tasks |-> IdleTask]
    /\ closer = CloserIdle(<<>>)
    /\ received = <<>>
    /\ tool_calls_buffer = <<>>
    /\ stream = "start"
    /\ pending = <<>>
    /\ rounds = 0
    /\ executions = <<>>
    /\ yielded = <<>>
    /\ response_chunks = <<>>
    /\ delivered = <<>>
    /\ chat_history = [u \in Users |-> <<>>]
    /\ turn_user \in Users
    /\ message = <<"m">>
    /\ llm_provider \in ProviderIdInputs
    /\ adapter_calls = 0
    /\ TurnIdle

NextTurn ==
    \/ \E tools_in \in TurnSelections : StartTurn(tools_in)
    \/ \E n \in 0..3 : \E envs \in SchemaEnvs(n) : GetSchemas(envs)
    \/ GenerateResponseStream
    \/ \E line \in TurnLines : ReadLine(line)
    \/ \E line \in OllamaLines : OllamaReadLine(line)
    \/ \E env \in {"ok", "connect_fail", "call_fail"} : ExecOne(env)
    \/ EndOfBody
    \/ Finalize

SpecTurn == InitTurn /\ [][NextTurn]_vars

(***************************************************************************)
(* The non-streaming turn: ChatService.process_message.  It starts like    *)
(* the streaming turn (validation, schemas), awaits the whole response of  *)
(* the provider, runs the tool calls of the response one after the other   *)
(* on ChatService's own MCPService, stores the turn and returns.           *)
(***************************************************************************)
\* What _call_openai returns: message['content'], or the content and the tool
\* calls of the message when it has tool calls.
Resp(content, tool_calls) ==
    [k |-> "response", choices |-> TRUE, content |-> content,
     tool_calls |-> tool_calls, finish |-> "none"]

Responses ==
    { Resp(Str(<<"h">>), <<>>),
      Resp(NullField, << TD(0, Str(<<"c">>), Str(FS_r), Str(<<"{", "}">>)) >>),
      Resp(Str(<<"h">>), << TD(0, Str(<<"c">>), Str(AD_r), Str(<<"{", "}">>)),
                            TD(1, Str(<<"c">>), Str(FS_r), Str(<<"{", "}">>)) >>),
      Resp(Str(<<"h">>), << TD(0, Str(<<"c">>), Str(FS_r), Str(<<"{", "}">>)),
                            TD(1, Str(<<"c">>), Str(FS_r), Str(<<"{">>)) >>) }

\* executed_tools of _handle_tool_calls: None, or the list of tool ids.
NoneExecuted == [none |-> TRUE, ids |-> <<>>]
Executed(ids) == [none |-> FALSE, ids |-> ids]

\* A variant that always records the tools that ran.
ToolsUsed_ExecutedOnly(executed_tools, tools_used) == executed_tools.ids

\* executed_tools or tools_used
ToolsUsed(executed_tools, tools_used) ==
    IF ~executed_tools.none /\ executed_tools.ids /= <<>>
    THEN executed_tools.ids ELSE tools_used

\* The tool ids of the executions that succeeded: result.get('tool_id', ...).
RECURSIVE SucceededIds(_)
SucceededIds(execs) ==
    IF execs = <<>> THEN <<>>
    ELSE (IF Head(execs).success
          THEN << SplitFunctionName(Head(execs).name).tool_id >> ELSE <<>>)
         \o SucceededIds(Tail(execs))

\* _format_response_with_tool_results: the content, a heading and one line per
\* tool result.
FormatResponse(content, execs) ==
    Fragment(content) \o << "[", "results", "]" >>
    \o Join([i \in 1..Len(execs) |->
                Chunk("result", Str(execs[i].name), execs[i].index, 1, execs[i].success)])

\* str(response) of a response with tool calls.
StrOfResponse(resp) == << "{" >> \o Fragment(resp.content) \o << "}" >>

\* A variant that returns the response of the provider and stores nothing.
StoredEntries_None(history, entry) == history

StoredEntries(history, entry) == StoreChatEntry(history, entry)

\* The end of process_message: the turn is stored and the result returned.
StoreAndReturn(final_response, executed_tools) ==
    LET used == ToolsUsed(executed_tools, tools_select_could_used)
    IN  /\ chat_history' = [chat_history EXCEPT ![turn_user] =
               StoredEntries(@, [user_message |-> message,
                                 assistant_response |-> final_response,
                                 provider |-> llm_provider,
                                 tools_used |-> used])]
        /\ turns' = [turns EXCEPT ![turn_user] = @ + 1]
        /\ call_log' = Append(call_log,
               [op |-> "process_message", content |-> final_response,
                provider |-> llm_provider, tools_used |-> used,
                tool_executions |-> ~executed_tools.none])
        /\ stream' = "stored"

\* generate_response returns resp (or raises: a failed check or a failed
\* request is re-raised by process_message, which stores nothing); a text is
\* stored and returned, tool calls are handled first.
GenerateResponse(resp) ==
    /\ stream = "request"
    /\ ws.handler /= "handle_chat_message"
    /\ IF ~generate_response_access(llm_provider, turn_user)
       THEN /\ failure' = "denied"
            /\ stream' = "raised"
            /\ UNCHANGED <<received, pending, adapter_calls, chat_history, turns, call_log>>
       ELSE /\ adapter_calls' = adapter_calls + 1
            /\ received' = << resp >>
            /\ UNCHANGED failure
            /\ IF resp.tool_calls = <<>>
               THEN /\ StoreAndReturn(resp.content.s, NoneExecuted)
                    /\ UNCHANGED pending
               ELSE /\ pending' = AccumulateAll(<<>>, resp.tool_calls)
                    /\ stream' = "handling"
                    /\ UNCHANGED <<chat_history, turns, call_log>>
    /\ UNCHANGED <<poolVars, tool_calls_buffer, rounds, executions, yielded,
                   response_chunks, delivered, ws, turn_user, selected_tools, validated,
                   tools_select_could_used, tool_schemas, message, llm_provider>>

\* The request to the provider fails: _real_llm_call raises.
GenerateResponseFails ==
    /\ stream = "request"
    /\ ws.handler /= "handle_chat_message"
    /\ generate_response_access(llm_provider, turn_user)
    /\ adapter_calls' = adapter_calls + 1
    /\ failure' = "status"
    /\ stream' = "raised"
    /\ UNCHANGED <<poolVars, received, tool_calls_buffer, pending, rounds, executions,
                   yielded, response_chunks, delivered, ws, chat_history, turn_user,
                   selected_tools, validated, tools_select_could_used, tool_schemas,
                   call_log, message, llm_provider, turns>>

\* One iteration of the loop of _handle_tool_calls, execute_tool_call run to
\* its end.  Arguments that do not parse end the loop: the except clause
\* returns str(response) and no executed tools.
HandleToolCall(env) ==
    /\ stream = "handling"
    /\ env \in EnvForOn("chat", pending[1].v.name, turn_user)
    /\ LET call == pending[1]
           r == ToolCallRunOn("chat", call.v.name, turn_user, env)
           execs == Append(executions,
                       [Started(call, 1) EXCEPT !.done = TRUE, !.success = r.success])
       IN  IF ~JsonValid(call.v.arguments)
           THEN /\ StoreAndReturn(StrOfResponse(received[1]), NoneExecuted)
                /\ pending' = <<>>
                /\ UNCHANGED <<mcp_clients, clients, executions>>
           ELSE /\ IF r.connected
                   THEN /\ clients' = Append(clients,
                               [tool |-> r.tool_id, svc |-> "chat", state |-> "open"])
                        /\ mcp_clients' = [mcp_clients EXCEPT !["chat"] =
                               DictSet(mcp_clients["chat"], r.tool_id, Len(clients) + 1)]
                   ELSE UNCHANGED <<mcp_clients, clients>>
                /\ executions' = execs
                /\ pending' = Tail(pending)
                /\ IF Tail(pending) /= <<>>
                   THEN UNCHANGED <<stream, chat_history, turns, call_log>>
                   ELSE StoreAndReturn(FormatResponse(received[1].content, execs),
                                       Executed(SucceededIds(execs)))
    /\ UNCHANGED <<task, closer, received, tool_calls_buffer, rounds, yielded,
                   response_chunks, delivered, ws, turn_user, failure, selected_tools,
                   validated, tools_select_could_used, tool_schemas, message, llm_provider,
                   adapter_calls>>

NextMessage ==
    \/ \E tools_in \in TurnSelections : StartTurn(tools_in)
    \/ \E n \in 0..3 : \E envs \in SchemaEnvs(n) : GetSchemas(envs)
    \/ \E resp \in Responses : GenerateResponse(resp)
    \/ GenerateResponseFails
    \/ \E env \in {"ok", "connect_fail", "call_fail"} : HandleToolCall(env)

SpecMessage == InitTurn /\ [][NextMessage]_vars

\* A turn of either kind: the websocket handler runs process_message_stream,
\* the /message endpoint runs process_message.
NextChat == NextTurn \/ NextMessage

SpecChat == InitTurn /\ [][NextChat]_vars

(***************************************************************************)
(* The entry points of a turn: ConnectionManager.handle_chat_message for a *)
(* message received on a websocket connection, and the POST /message       *)
(* endpoint (api/chat.py send_message).  The endpoint loop awaits          *)
(* handle_message before it receives the next message, so the messages of  *)
(* a connection are handled one after the other; the specification follows *)
(* a connection up to the end of its first accepted message.               *)
(***************************************************************************)
Whitespace == {" ", "\t", "\n"}

\* str.lstrip() and str.strip() without arguments.
RECURSIVE LStrip(_)
LStrip(text) ==
    IF text /= <<>> /\ Head(text) \in Whitespace THEN LStrip(Tail(text)) ELSE text

RECURSIVE Strip(_)
Strip(text) ==
    IF text /= <<>> /\ text[Len(text)] \in Whitespace
    THEN Strip(SubSeq(text, 1, Len(text) - 1))
    ELSE LStrip(text)

\* The message texts and provider ids a client sends ('' when the key is
\* missing or empty).
MessageInputs == { <<>>, <<" ">>, <<"\t", "\n">>, <<" ", "m", " ">> }

LlmProviderInputs == ProviderIdInputs \cup {""}

\* A variant that leaves the provider id to the turn.
Rejection_ProviderUnchecked(msg, provider) ==
    IF Strip(msg) = <<>> THEN <<"e", "m", "p", "t", "y">> ELSE <<>>

\* The two checks both entry points start with: the error text, or nothing.
Rejection(msg, provider) ==
    IF Strip(msg) = <<>> THEN <<"e", "m", "p", "t", "y">>
    ELSE IF provider = "" THEN <<"p", "r", "o", "v", "i", "d", "e", "r">>
    ELSE <<>>

ChatError(text) == WsMessage("chat_error", "error", Chunk("chat_error", Str(text), -1, 0, FALSE))
StreamStart == WsMessage("chat_stream", "start", NoChunk)
StreamEnd == WsMessage("chat_stream", "end", NoChunk)

\* A websocket connection that was accepted.
OpenSocket == [NoSocket EXCEPT !.accepted = TRUE, !.open = TRUE]

\* handle_chat_message up to its first suspension in the turn: a rejected
\* message is answered with one chat_error; an accepted one sends the start
\* marker and calls process_message_stream.
HandleChatMessage(msg, provider) ==
    /\ stream = "waiting"
    /\ ws.open
    /\ ws.handled < MaxMessages
    /\ IF Rejection(msg, provider) /= <<>>
       THEN /\ ws' = [Send(ws, << ChatError(Rejection(msg, provider)) >>)
                         EXCEPT !.handled = @ + 1]
            /\ UNCHANGED <<stream, message, llm_provider>>
       ELSE /\ ws' = [Send(ws, << StreamStart >>)
                         EXCEPT !.handled = @ + 1, !.handler = "handle_chat_message"]
            /\ message' = msg
            /\ llm_provider' = provider
            /\ stream' = "start"
    /\ UNCHANGED <<poolVars, received, tool_calls_buffer, pending, rounds, executions,
                   yielded, response_chunks, delivered, chat_history, turn_user, failure,
                   selected_tools, validated, tools_select_could_used, tool_schemas,
                   call_log, turns, adapter_calls>>

\* POST /message: a rejected request raises HTTPException(400); an accepted
\* one calls process_message.
SendMessage(msg, provider) ==
    /\ stream = "waiting"
    /\ ws = NoSocket
    /\ IF Rejection(msg, provider) /= <<>>
       THEN /\ failure' = "http_400"
            /\ stream' = "raised"
            /\ UNCHANGED <<ws, message, llm_provider>>
       ELSE /\ ws' = [ws EXCEPT !.handler = "send_message"]
            /\ message' = msg
            /\ llm_provider' = provider
            /\ stream' = "start"
            /\ UNCHANGED failure
    /\ UNCHANGED <<poolVars, received, tool_calls_buffer, pending, rounds, executions,
                   yielded, response_chunks, delivered, chat_history, turn_user,
                   selected_tools, validated, tools_select_could_used, tool_schemas,
                   call_log, turns, adapter_calls>>

\* The generator of process_message_stream is exhausted: handle_chat_message
\* sends the end marker and returns.
SendEnd ==
    /\ stream = "stored"
    /\ ws.handler = "handle_chat_message"
    /\ ws' = Send(ws, << StreamEnd >>)
    /\ stream' = "over"
    /\ UNCHANGED <<poolVars, received, tool_calls_buffer, pending, rounds, executions,
                   yielded, response_chunks, delivered, chat_history, turn_user, failure,
                   selected_tools, validated, tools_select_could_used, tool_schemas,
                   call_log, turns, message, llm_provider, adapter_calls>>

\* The client goes away: send_text raises from then on, send_message removes
\* the connection and every later message is dropped.
Disconnect ==
    /\ ws.open
    /\ ws' = [ws EXCEPT !.open = FALSE]
    /\ UNCHANGED <<poolVars, received, tool_calls_buffer, stream, pending, rounds,
                   executions, yielded, response_chunks, delivered, chat_history,
                   turn_user, failure, selected_tools, validated,
                   tools_select_could_used, tool_schemas, call_log, turns, message,
                   llm_provider, adapter_calls>>

InitWs ==
    /\ mcp_clients = [s \in Services |-> <<>>]
    /\ clients = <<>>
    /\ task = [t \in Tasks |-> IdleTask]
    /\ closer = CloserIdle(<<>>)
    /\ received = <<>>
    /\ tool_calls_buffer = <<>>
    /\ stream = "waiting"
    /\ pending = <<>>
    /\ rounds = 0
    /\ executions = <<>>
    /\ yielded = <<>>
    /\ response_chunks = <<>>
    /\ delivered = <<>>
    /\ chat_history = [u \in Users |-> <<>>]
    /\ turn_user \in Users
    /\ message = <<>>
    /\ llm_provider = "none"
    /\ adapter_calls = 0
    /\ failure = "none"
    /\ ws \in {OpenSocket, NoSocket}
    /\ selected_tools = <<>>
    /\ validated = <<>>
    /\ tools_select_could_used = <<>>
    /\ tool_schemas = <<>>
    /\ call_log = <<>>
    /\ turns = [u \in Users |-> 0]

\* The selected_tools of a message, and the lines of the provider.
WsSelections == { <<>>, <<FS>>, <<AD, FS>> }

WsLines ==
    { Ev(Str(<<"h">>), <<>>, "none"), DoneLine,
      Ev(NoField, << TD(0, Str(<<"c">>), Str(FS_r), Str(<<"{", "}">>)) >>, "tool_calls") }

\* The steps of a turn once a message was accepted (the body of an Ollama
\* provider is not followed line by line: it ends or fails).
TurnStep ==
    \/ \E tools_in \in WsSelections : StartTurn(tools_in)
    \/ \E n \in 0..2 : \E envs \in SchemaEnvs(n) : GetSchemas(envs)
    \/ GenerateResponseStream
    \/ \E line \in WsLines : ReadLine(line)
    \/ \E env \in {"ok", "connect_fail", "call_fail"} : ExecOne(env)
    \/ EndOfBody
    \/ \E kind \in FailureKinds : StreamError(kind)
    \/ Finalize
    \/ SendEnd
    \/ \E resp \in Responses : GenerateResponse(resp)
    \/ GenerateResponseFails
    \/ \E env \in {"ok", "connect_fail", "call_fail"} : HandleToolCall(env)

NextWs ==
    \/ \E msg \in MessageInputs, provider \in LlmProviderInputs :
           HandleChatMessage(msg, provider)
    \/ \E msg \in MessageInputs, provider \in LlmProviderInputs :
           SendMessage(msg, provider)
    \/ Disconnect
    \/ TurnStep

SpecWs == InitWs /\ [][NextWs]_vars

\* Every await of a turn returns or raises (the provider request has a
\* timeout, the body of the provider ends, a tool server answers or fails),
\* and the event loop resumes the handler: a turn that can take a step takes
\* one.  Nothing is assumed about the client.
SpecWsFair == SpecWs /\ WF_vars(TurnStep)

(***************************************************************************)
(* The identity of a turn.  AuthMiddleware is a BaseHTTPMiddleware: it     *)
(* runs for requests of the HTTP scope only and passes a websocket scope   *)
(* on untouched.  header is the value of x-email-header ("" when the       *)
(* header is absent), debug is settings.debug.                             *)
(***************************************************************************)
IdentityUsers == Users \cup {"test@test.com"}
IdentityHeaders == {"", "user@example.com"}

\* What the middleware leaves in the state of the scope.
NoIdentity == [set |-> FALSE, user_email |-> "none", redirect |-> FALSE]

AuthMiddleware(scope_type, header, debug) ==
    IF scope_type /= "http" THEN NoIdentity
    ELSE IF debug THEN [NoIdentity EXCEPT !.set = TRUE, !.user_email = "test@test.com"]
    ELSE IF header = "" THEN [NoIdentity EXCEPT !.redirect = TRUE]
    ELSE [NoIdentity EXCEPT !.set = TRUE, !.user_email = header]

\* websocket_endpoint: websocket.state.user_email if it is set, else the
\* literal of line 109.
WebsocketUserEmail(state) == IF state.set THEN state.user_email ELSE "test@test.com"

\* get_user_email of api/chat.py
get_user_email(state) == IF state.set THEN state.user_email ELSE "unknown"

\* A websocket connection is accepted; its user is fixed for its lifetime.
WebsocketConnect(header, debug) ==
    /\ stream = "connecting"
    /\ turn_user' = WebsocketUserEmail(AuthMiddleware("websocket", header, debug))
    /\ ws' = OpenSocket
    /\ stream' = "waiting"
    /\ call_log' = Append(call_log,
           [op |-> "websocket_endpoint", header |-> header, debug |-> debug])
    /\ UNCHANGED <<poolVars, received, tool_calls_buffer, pending, rounds, executions,
                   yielded, response_chunks, delivered, chat_history, failure,
                   selected_tools, validated, tools_select_could_used, tool_schemas,
                   turns, message, llm_provider, adapter_calls>>

\* A POST /message request passes the middleware (or is redirected to /auth).
HttpRequest(header, debug) ==
    /\ stream = "connecting"
    /\ LET state == AuthMiddleware("http", header, debug)
       IN  IF state.redirect
           THEN /\ stream' = "redirected"
                /\ UNCHANGED turn_user
           ELSE /\ stream' = "waiting"
                /\ turn_user' = get_user_email(state)
    /\ call_log' = Append(call_log,
           [op |-> "dispatch", header |-> header, debug |-> debug])
    /\ UNCHANGED <<poolVars, received, tool_calls_buffer, pending, rounds, executions,
                   yielded, response_chunks, delivered, ws, chat_history, failure,
                   selected_tools, validated, tools_select_could_used, tool_schemas,
                   turns, message, llm_provider, adapter_calls>>

InitIdentity ==
    /\ mcp_clients = [s \in Services |-> <<>>]
    /\ clients = <<>>
    /\ task = [t \in Tasks |-> IdleTask]
    /\ closer = CloserIdle(<<>>)
    /\ received = <<>>
    /\ tool_calls_buffer = <<>>
    /\ stream = "connecting"
    /\ pending = <<>>
    /\ rounds = 0
    /\ executions = <<>>
    /\ yielded = <<>>
    /\ response_chunks = <<>>
    /\ delivered = <<>>
    /\ chat_history = [u \in IdentityUsers |-> <<>>]
    /\ turn_user = "none"
    /\ message = <<>>
    /\ llm_provider = "none"
    /\ adapter_calls = 0
    /\ failure = "none"
    /\ ws = NoSocket
    /\ selected_tools = <<>>
    /\ validated = <<>>
    /\ tools_select_could_used = <<>>
    /\ tool_schemas = <<>>
    /\ call_log = <<>>
    /\ turns = [u \in IdentityUsers |-> 0]

NextIdentity ==
    \/ \E header \in IdentityHeaders, debug \in BOOLEAN : WebsocketConnect(header, debug)
    \/ \E header \in IdentityHeaders, debug \in BOOLEAN : HttpRequest(header, debug)
    \/ NextWs

SpecIdentity == InitIdentity /\ [][NextIdentity]_vars

(***************************************************************************)
(* The validation endpoints (api/mcp.py, api/llm.py) can be called at any  *)
(* time, also while a turn is under way.  Every call is logged with its    *)
(* inputs, its result and the number of clients constructed so far.        *)
(***************************************************************************)
ValidateInputs == { <<>>, <<FS>>, <<AD, X, FS>>, <<X, X>> }

Validate(tool_ids, user_email) ==
    /\ Len(call_log) < MaxCalls
    /\ call_log' = Append(call_log,
           [op |-> "validate_tool_access", input |-> tool_ids, user_email |-> user_email,
            result |-> Validations(tool_ids, user_email), clients_then |-> Len(clients)])
    /\ UNCHANGED <<poolVars, ioVars, chat_history, turn_user, message, llm_provider,
                   adapter_calls, failure, selected_tools,
                   validated, tools_select_could_used, tool_schemas, turns>>

ValidateProvider(provider_id, user_email) ==
    /\ Len(call_log) < MaxCalls
    /\ call_log' = Append(call_log,
           [op |-> "validate_provider_access", input |-> provider_id,
            user_email |-> user_email,
            result |-> validate_provider_access(provider_id, user_email),
            clients_then |-> Len(clients)])
    /\ UNCHANGED <<poolVars, ioVars, chat_history, turn_user, message, llm_provider,
                   adapter_calls, failure, selected_tools,
                   validated, tools_select_could_used, tool_schemas, turns>>

NextValidate ==
    \/ \E tool_ids \in ValidateInputs, u \in Users : Validate(tool_ids, u)
    \/ \E provider_id \in ProviderIdInputs, u \in Users : ValidateProvider(provider_id, u)
    \/ \E tools_in \in TurnSelections : StartTurn(tools_in)
    \/ \E n \in 0..3 : \E envs \in SchemaEnvs(n) : GetSchemas(envs)
    \/ GenerateResponseStream
    \/ EndOfBody
    \/ Finalize

SpecValidate == InitTurn /\ [][NextValidate]_vars

(***************************************************************************)
(* The access evaluator as a function: is_user_in_group applied to users   *)
(* and groups inside and outside the membership table.                     *)
(***************************************************************************)
AuthUsers == DOMAIN mock_user_groups \cup {"unknown", "nobody@example.com"}
AuthGroups == {"default", "admin", "mcp_users", "super_admin", "nogroup"}

CheckGroup(userid, groupid) ==
    /\ Len(call_log) < MaxCalls
    /\ call_log' = Append(call_log,
           [op |-> "is_user_in_group", userid |-> userid, groupid |-> groupid,
            result |-> is_user_in_group(userid, groupid)])
    /\ UNCHANGED <<poolVars, ioVars, chat_history, turn_user, message, llm_provider,
                   adapter_calls, failure, selected_tools,
                   validated, tools_select_could_used, tool_schemas, turns>>

NextAuth == \E userid \in AuthUsers, groupid \in AuthGroups : CheckGroup(userid, groupid)

SpecAuth == InitPool /\ [][NextAuth]_vars

(***************************************************************************)
(* The chat log (ChatService.chat_history): turns are stored one after the *)
(* other, and the log is read with get_chat_history.  The n-th stored turn *)
(* of a user carries n as its user message.                                *)
(***************************************************************************)
\* A turn of user_email runs to its end and is stored.  (The result of an
\* earlier get_chat_history call is dropped from the log of calls: it was read
\* from a log that is now replaced.)
StoreTurn(user_email) ==
    /\ turns[user_email] < MaxTurns
    /\ turns' = [turns EXCEPT ![user_email] = @ + 1]
    /\ chat_history' = [chat_history EXCEPT ![user_email] =
           StoreChatEntry(@, [user_message |-> turns[user_email] + 1])]
    /\ call_log' = <<>>
    /\ UNCHANGED <<poolVars, ioVars, turn_user, message, llm_provider,
                   adapter_calls, failure, selected_tools, validated,
                   tools_select_could_used, tool_schemas>>

\* history[-limit:] for a list of length len: the 1-based position of the first
\* element of the slice (len + 1 when the slice is empty).
SliceStart(len, limit) ==
    LET start == IF -limit < 0 THEN (IF len - limit < 0 THEN 0 ELSE len - limit)
                 ELSE (IF -limit > len THEN len ELSE -limit)
    IN  start + 1

\* ChatService.get_chat_history: history[-limit:] if limit else history
get_chat_history(history, limit) ==
    IF limit /= 0
    THEN SubSeq(history, SliceStart(Len(history), limit), Len(history))
    ELSE history

\* The limits a history request is made with (api/chat.py passes the query
\* parameter on as it is).
LimitInputs == {0, 1, 2, 50, 150}

\* get_chat_history is called; the last call is kept with its result.
GetHistory(user_email, limit) ==
    /\ call_log' = << [op |-> "get_chat_history", user_email |-> user_email,
                       limit |-> limit,
                       result |-> get_chat_history(chat_history[user_email], limit)] >>
    /\ UNCHANGED <<poolVars, ioVars, chat_history, turn_user, message, llm_provider,
                   adapter_calls, failure, selected_tools,
                   validated, tools_select_could_used, tool_schemas, turns>>

NextHistory ==
    \/ \E u \in Users : StoreTurn(u)
    \/ \E u \in Users, limit \in LimitInputs : GetHistory(u, limit)

SpecHistory == InitPool /\ [][NextHistory]_vars

(***************************************************************************)
(* The result record of ToolSchemaService.execute_tool_call.  The call is  *)
(* run to its end; keys are the keys of the returned dict.                 *)
(***************************************************************************)
\* A variant whose ValueError for a name without "_" leaves the function.
execute_tool_call_result_Raises(function_name, r) ==
    [raised |-> ~SplitFunctionName(function_name).ok, success |-> r.success,
     keys |-> IF SplitFunctionName(function_name).ok
              THEN {"success", "error", "tool_id", "tool_name"} ELSE {},
     tool_id |-> r.tool_id, tool_name |-> function_name]

\* The dict returned at the end of the try block, or by "except Exception":
\* there tool_id is the local if it was assigned (else "unknown") and tool_name
\* is the whole function name.
execute_tool_call_result(function_name, r) ==
    LET parts == SplitFunctionName(function_name)
    IN  IF r.success
        THEN [raised |-> FALSE, success |-> TRUE,
              keys |-> {"success", "result", "tool_id", "tool_name"},
              tool_id |-> parts.tool_id, tool_name |-> parts.server_tool_name]
        ELSE [raised |-> FALSE, success |-> FALSE,
              keys |-> {"success", "error", "tool_id", "tool_name"},
              tool_id |-> IF parts.ok THEN parts.tool_id
                          ELSE <<"u", "n", "k", "n", "o", "w", "n">>,
              tool_name |-> function_name]

\* execute_tool_call(function_name, arguments, user_email) on the MCPService
\* of svc returns; env is what the tool server does with the connection and
\* with the call (arguments included).
ToolCallReturns(svc, function_name, user_email, env) ==
    /\ Len(call_log) < MaxCalls
    /\ env \in EnvForOn(svc, function_name, user_email)
    /\ LET r == ToolCallRunOn(svc, function_name, user_email, env)
       IN  /\ IF r.connected
              THEN /\ Len(clients) < MaxClients
                   /\ clients' = Append(clients,
                          [tool |-> r.tool_id, svc |-> svc, state |-> "open"])
                   /\ mcp_clients' = [mcp_clients EXCEPT ![svc] =
                          DictSet(mcp_clients[svc], r.tool_id, Len(clients) + 1)]
              ELSE UNCHANGED <<mcp_clients, clients>>
           /\ call_log' = Append(call_log,
                  [op |-> "execute_tool_call", function_name |-> function_name,
                   user_email |-> user_email, env |-> env, reach |-> r.reach,
                   returned |-> execute_tool_call_result(function_name, r)])
    /\ UNCHANGED <<task, closer, ioVars, chat_history, turn_user, message, llm_provider,
                   adapter_calls, failure, selected_tools,
                   validated, tools_select_could_used, tool_schemas, turns>>

NextToolCall ==
    \E svc \in Services, function_name \in FunctionNameInputs, u \in Users,
       env \in {"ok", "connect_fail", "call_fail"} :
        ToolCallReturns(svc, function_name, u, env)

SpecToolCall == InitPool /\ [][NextToolCall]_vars

(***************************************************************************)
(* Parameter schemas (ToolSchemaService._convert_parameters_schema).  A    *)
(* schema is a dict of text values; the inputSchema of a tool of a tool    *)
(* server may be missing, None, empty, or lack any of the keys.            *)
(***************************************************************************)
\* The inputSchema attribute of an MCP tool: absent, None or a dict.
NoSchema == [has |-> FALSE, null |-> FALSE, d |-> <<>>]
NoneSchema == [has |-> TRUE, null |-> TRUE, d |-> <<>>]
SchemaDict(d) == [has |-> TRUE, null |-> FALSE, d |-> d]

\* The entries a tool server may give; "title" is a key the translator does
\* not know.
SchemaEntries ==
    << [k |-> "title", v |-> "t"], [k |-> "type", v |-> "string"],
       [k |-> "properties", v |-> "{x}"], [k |-> "required", v |-> "[x]"] >>

InSet(entry, keys) == entry.k \in keys

SchemaInputs ==
    { NoSchema, NoneSchema }
        \cup { SchemaDict(SelectSeq(SchemaEntries, LAMBDA e : InSet(e, keys))) :
                 keys \in SUBSET {"title", "type", "properties", "required"} }

\* d.setdefault-like step of _convert_parameters_schema:
\* if key not in input_schema: input_schema[key] = val
WithDefault(d, key, val) == IF DictHas(d, key) THEN d ELSE DictSet(d, key, val)

\* A variant that does not supply "required".
convert_parameters_schema_NoRequired(input_schema) ==
    WithDefault(WithDefault(input_schema.d, "type", "object"), "properties", "{}")

\* _convert_parameters_schema; "not input_schema" holds for None and for {}.
convert_parameters_schema(input_schema) ==
    IF input_schema.null \/ input_schema.d = <<>>
    THEN << [k |-> "type", v |-> "object"], [k |-> "properties", v |-> "{}"],
            [k |-> "required", v |-> "[]"] >>
    ELSE WithDefault(WithDefault(WithDefault(input_schema.d, "type", "object"),
                                 "properties", "{}"),
                     "required", "[]")

\* _convert_mcp_tool_to_llm_schema builds the parameters of one tool:
\* getattr(mcp_tool, 'inputSchema', {}) is converted.
ConvertParameters(mcp_tool) ==
    /\ Len(call_log) < MaxCalls
    /\ call_log' = Append(call_log,
           [op |-> "_convert_parameters_schema", mcp_tool |-> mcp_tool,
            input_schema |-> IF mcp_tool.has THEN mcp_tool ELSE SchemaDict(<<>>),
            parameters |-> convert_parameters_schema(
                               IF mcp_tool.has THEN mcp_tool ELSE SchemaDict(<<>>))])
    /\ UNCHANGED <<poolVars, ioVars, chat_history, turn_user, message, llm_provider,
                   adapter_calls, failure, selected_tools,
                   validated, tools_select_could_used, tool_schemas, turns>>

NextParameters == \E mcp_tool \in SchemaInputs : ConvertParameters(mcp_tool)

SpecParameters == InitPool /\ [][NextParameters]_vars

(***************************************************************************)
(* Concurrent streaming turns on the ChatService of the connection         *)
(* manager: every websocket connection runs its turns on the one           *)
(* ChatService of the module-level ConnectionManager.  A turn is suspended *)
(* inside "async for chunk in generate_response_stream"; what follows the  *)
(* loop (the join and _store_chat_entry) has no await and runs in one step *)
(* of the event loop.  Turns are logged when they are submitted.           *)
(***************************************************************************)
\* A log of n entries stored before: the i-th stored turn carries i.
StoredBefore(n) == [i \in 1..n |-> [user_message |-> i]]

\* The turn submitted after k others carries HistoryCap + k.
Submitted(k) == HistoryCap + k

\* A coroutine of process_message_stream suspended in the provider stream.
Streaming(user_email, msg) ==
    [pc |-> "streaming", op |-> "process_message_stream", user |-> user_email,
     message |-> msg, result |-> "none"]

\* process_message_stream is called for user_email and runs to its suspension
\* in the provider stream.
SubmitTurn(t, user_email) ==
    /\ task[t].pc \in {"idle", "done"}
    /\ Len(call_log) < MaxCalls
    /\ task' = [task EXCEPT ![t] = Streaming(user_email, Submitted(Len(call_log)))]
    /\ call_log' = Append(call_log,
           [op |-> "process_message_stream", user_email |-> user_email,
            message |-> Submitted(Len(call_log))])
    /\ UNCHANGED <<mcp_clients, clients, closer, ioVars, chat_history, turn_user, message,
                   llm_provider, adapter_calls, failure, selected_tools,
                   validated, tools_select_could_used, tool_schemas, turns>>

\* A variant that keeps one log for all users.
StoredFor_OneLog(history, user_email, entry) ==
    [u \in DOMAIN history |-> StoreChatEntry(history[u], entry)]

\* _store_chat_entry on the dict of logs: the entry goes to
\* self.chat_history[user_email].
StoredFor(history, user_email, entry) ==
    [history EXCEPT ![user_email] = StoreChatEntry(@, entry)]

\* The provider stream of task t is exhausted: the turn is stored.
TurnStored(t) ==
    /\ task[t].pc = "streaming"
    /\ chat_history' = StoredFor(chat_history, task[t].user,
                                 [user_message |-> task[t].message])
    /\ turns' = [turns EXCEPT ![task[t].user] = @ + 1]
    /\ task' = [task EXCEPT ![t] = [task[t] EXCEPT !.pc = "done", !.result = "stored"]]
    /\ UNCHANGED <<mcp_clients, clients, closer, ioVars, turn_user, message,
                   llm_provider, adapter_calls, failure, selected_tools,
                   validated, tools_select_could_used, tool_schemas, call_log>>

\* The provider stream of task t raises (or the caller closes the generator):
\* the except clause yields an error chunk and nothing is stored.
TurnAbandoned(t) ==
    /\ task[t].pc = "streaming"
    /\ task' = [task EXCEPT ![t] = [task[t] EXCEPT !.pc = "done", !.result = "error"]]
    /\ UNCHANGED <<mcp_clients, clients, closer, ioVars, chat_history, turn_user, message,
                   llm_provider, adapter_calls, failure, selected_tools,
                   validated, tools_select_could_used, tool_schemas, call_log, turns>>

\* The service has stored no turn of a user or HistoryCap - 1 of them.
InitConcurrent ==
    /\ mcp_clients = [s \in Services |-> <<>>]
    /\ clients = <<>>
    /\ task = [t \in Tasks |-> IdleTask]
    /\ closer = CloserIdle(<<>>)
    /\ received = <<>>
    /\ tool_calls_buffer = <<>>
    /\ stream = "idle"
    /\ pending = <<>>
    /\ rounds = 0
    /\ executions = <<>>
    /\ yielded = <<>>
    /\ response_chunks = <<>>
    /\ delivered = <<>>
    /\ chat_history \in [Users -> {<<>>, StoredBefore(HistoryCap - 1)}]
    /\ turns = [u \in Users |-> Len(chat_history[u])]
    /\ turn_user = "none"
    /\ message = <<>>
    /\ llm_provider = "none"
    /\ adapter_calls = 0
    /\ failure = "none"
    /\ ws = NoSocket
    /\ selected_tools = <<>>
    /\ validated = <<>>
    /\ tools_select_could_used = <<>>
    /\ tool_schemas = <<>>
    /\ call_log = <<>>

NextConcurrent ==
    \/ \E t \in Tasks, u \in Users : SubmitTurn(t, u)
    \/ \E t \in Tasks : TurnStored(t)
    \/ \E t \in Tasks : TurnAbandoned(t)

SpecConcurrent == InitConcurrent /\ [][NextConcurrent]_vars

(***************************************************************************)
(* The tool listing (MCPService.get_available_tools): the registry is      *)
(* walked in its order; for a server-backed tool of a user who is in the   *)
(* tool's group the server is asked for its functions.  The loop is taken  *)
(* one tool at a step; the listing returns with the step of the last tool. *)
(***************************************************************************)
\* self.tools.values(): the order in which the registry was loaded.
ToolOrder == << FS, DS, AD, BI, EX >>

\* The coroutine of get_available_tools before the tool Head(todo).
Listing(svc, user_email, todo, available_tools) ==
    [pc |-> "listing", op |-> "get_available_tools", svc |-> svc, user |-> user_email,
     todo |-> todo, result |-> available_tools]

\* A variant that asks the server of every server-backed tool.
AsksServer_AnyUser(tool_id, user_email) == tools[tool_id].type = "fastmcp"

\* The listing asks the server of tool_id for user_email.
AsksServer(tool_id, user_email) ==
    /\ tools[tool_id].type = "fastmcp"
    /\ is_user_in_group(user_email, tools[tool_id].required_group)

\* What the server of a tool can do when the listing asks it.
ListingEnvs(svc, tool_id, user_email) ==
    IF ~AsksServer(tool_id, user_email) THEN {"ok"}
    ELSE IF DictHas(mcp_clients[svc], tool_id) THEN {"ok", "list_fail"}
    ELSE {"ok", "connect_fail", "list_fail"}

\* tool_info of one tool: tool.copy() with access_reason, mcp_tools (and
\* mcp_tools_count) or mcp_error set; env is kept for reference.
ToolInfo(tool_id, user_email, env) ==
    [id |-> tool_id,
     access_reason |-> ~is_user_in_group(user_email, tools[tool_id].required_group),
     mcp_tools |-> AsksServer(tool_id, user_email) /\ env = "ok",
     mcp_error |-> AsksServer(tool_id, user_email) /\ env /= "ok",
     env |-> env]

\* A variant that leaves out the tools whose server failed.
AvailableAfter_SkipFailed(available_tools, tool_info) ==
    IF tool_info.mcp_error THEN available_tools ELSE Append(available_tools, tool_info)

\* available_tools.append(tool_info)
AvailableAfter(available_tools, tool_info) == Append(available_tools, tool_info)

\* get_available_tools(user_email) is called on the MCPService of svc.
GetAvailableTools(t, svc, user_email) ==
    /\ task[t].pc \in {"idle", "done"}
    /\ closer.pc = "running"
    /\ task' = [task EXCEPT ![t] = Listing(svc, user_email, ToolOrder, <<>>)]
    /\ UNCHANGED <<mcp_clients, clients, closer, streamVars>>

\* One pass of the loop of get_available_tools, with the return that follows
\* the last one.
ListOneTool(t, env) ==
    /\ task[t].pc = "listing"
    /\ LET tk == task[t]
           tool_id == Head(tk.todo)
           asks == AsksServer(tool_id, tk.user)
           cached == DictHas(mcp_clients[tk.svc], tool_id)
           available_tools == AvailableAfter(tk.result, ToolInfo(tool_id, tk.user, env))
       IN  /\ env \in ListingEnvs(tk.svc, tool_id, tk.user)
           /\ IF asks /\ ~cached
              THEN /\ Len(clients) < MaxClients
                   /\ IF env = "connect_fail"
                      THEN /\ clients' = Append(clients, FailedClient)
                           /\ mcp_clients' = mcp_clients
                      ELSE /\ clients' = Append(clients,
                                  [tool |-> tool_id, svc |-> tk.svc, state |-> "open"])
                           /\ mcp_clients' = [mcp_clients EXCEPT ![tk.svc] =
                                  DictSet(mcp_clients[tk.svc], tool_id, Len(clients) + 1)]
              ELSE UNCHANGED <<mcp_clients, clients>>
           /\ task' = [task EXCEPT ![t] =
                  IF Tail(tk.todo) = <<>>
                  THEN [Listing(tk.svc, tk.user, <<>>, available_tools) EXCEPT !.pc = "done"]
                  ELSE Listing(tk.svc, tk.user, Tail(tk.todo), available_tools)]
    /\ UNCHANGED <<closer, streamVars>>

NextListing ==
    \/ \E t \in Tasks, svc \in Services, u \in Users : GetAvailableTools(t, svc, u)
    \/ \E t \in Tasks, env \in {"ok", "connect_fail", "list_fail"} : ListOneTool(t, env)
    \/ \E t \in Tasks, svc \in Services, tool_id \in ToolIdInputs, u \in Users :
           GetToolSchemas(t, svc, tool_id, u)
    \/ \E t \in Tasks : ConnectOk(t)
    \/ \E t \in Tasks : ConnectFail(t)
    \/ \E t \in Tasks : ListToolsDone(t)
    \/ \E t \in Tasks : ListToolsFail(t)

SpecListing == InitPool /\ [][NextListing]_vars

(***************************************************************************)
(* Claims about the tool client pool and the executors (SpecPool).         *)
(***************************************************************************)
\* The clients of tool_id that pool svc established (connected; closed or not).
Established(svc, tool_id) ==
    { i \in 1..Len(clients) :
        /\ clients[i].svc = svc
        /\ clients[i].tool = tool_id
        /\ clients[i].state \in {"open", "closed"} }

\* The live clients of tool_id in the process: connected and not yet closed.
Live(tool_id) ==
    { i \in 1..Len(clients) : clients[i].tool = tool_id /\ clients[i].state = "open" }

\* C1: concurrent first uses of one server-backed tool id in one pool perform
\* exactly one connection establishment: a pool never establishes a second
\* client for a tool id, under any interleaving at the await points.
C1_SingleConnectionPerPool ==
    \A svc \in Services, tool_id \in DOMAIN tools :
        Cardinality(Established(svc, tool_id)) <= 1

\* C2: at most one live (connected, not yet closed) client per tool identifier,
\* over the clients of every MCPService instance of the process.
C2_AtMostOneLiveClientPerTool ==
    \A tool_id \in DOMAIN tools : Cardinality(Live(tool_id)) <= 1

\* C3: tool execution fails closed: whenever a tool is dispatched for a user
\* (client.call_tool, or a builtin/external execution), the access check of
\* that same invocation has found the user in the tool's required group.
C3_ExecutionFailsClosed ==
    \A t \in Tasks :
        task[t].pc \in {"call_tool", "local_tool"} =>
            /\ task[t].checked
            /\ task[t].tool \in DOMAIN tools
            /\ \E g \in mock_user_groups_of(task[t].user) :
                   g = tools[task[t].tool].required_group

\* C3 witness: a server-backed tool is being called through execute_tool_call
\* while a builtin/external tool is being executed through execute_tool.
C3_Witness ==
    \E t1, t2 \in Tasks :
        /\ task[t1].pc = "call_tool" /\ task[t1].op = "execute_tool_call"
        /\ task[t2].pc = "local_tool" /\ task[t2].op = "execute_tool"

(***************************************************************************)
(* Claims about the streaming turn (SpecStream).  They are stated over the *)
(* history of the turn: the lines read (received), the executions started  *)
(* (executions) and the chunks that reached the caller (delivered).        *)
(***************************************************************************)
\* The tool-call deltas of a sequence of lines, in arrival order.
RECURSIVE DeltasOf(_)
DeltasOf(lines) ==
    IF lines = <<>> THEN <<>>
    ELSE (IF Head(lines).k = "event" /\ Head(lines).choices
          THEN Head(lines).tool_calls ELSE <<>>) \o DeltasOf(Tail(lines))

FieldOf(x, f) == CASE f = "id" -> x.id [] f = "name" -> x.name [] OTHER -> x.arguments

\* The concatenation, in arrival order, of the fragments of field f that the
\* deltas of accumulator index carry.
RECURSIVE FragmentsOf(_, _, _)
FragmentsOf(deltas, index, f) ==
    IF deltas = <<>> THEN <<>>
    ELSE (IF (IF Head(deltas).index = -1 THEN 0 ELSE Head(deltas).index) = index
             /\ FieldOf(Head(deltas), f).has
          THEN FieldOf(Head(deltas), f).s ELSE <<>>)
         \o FragmentsOf(Tail(deltas), index, f)

\* The position at which accumulator index was first seen in the stream.
FirstSeen(index) ==
    LET ds == DeltasOf(received)
    IN  CHOOSE j \in 1..Len(ds) :
            /\ (IF ds[j].index = -1 THEN 0 ELSE ds[j].index) = index
            /\ \A i \in 1..(j - 1) : (IF ds[i].index = -1 THEN 0 ELSE ds[i].index) /= index

\* The stream has signalled finish_reason "tool_calls".
FinishSignalled ==
    \E j \in 1..Len(received) :
        received[j].k = "event" /\ received[j].choices /\ received[j].finish = "tool_calls"

\* C4: within one provider stream each detected tool call (each accumulator
\* index) is executed at most once, whatever events the provider sends.
\* (Stated over the executions that ran the tool to a successful result.)
C4_EachCallExecutedAtMostOnce ==
    \A i, j \in 1..Len(executions) :
        (i /= j /\ executions[i].success /\ executions[j].success)
            => executions[i].index /= executions[j].index

\* C5: accumulator merge law: the accumulator holds exactly the indices seen, and
\* the id, name and arguments of every index are the concatenation, in arrival
\* order, of the fragments carried by the deltas of that index.
C5_AccumulatorMergeLaw ==
    LET ds == DeltasOf(received)
    IN  /\ { tool_calls_buffer[i].k : i \in 1..Len(tool_calls_buffer) }
             = { (IF ds[j].index = -1 THEN 0 ELSE ds[j].index) : j \in 1..Len(ds) }
        /\ \A i \in 1..Len(tool_calls_buffer) : \A f \in {"id", "name", "arguments"} :
               FieldOf(tool_calls_buffer[i].v, f)
                   = FragmentsOf(ds, tool_calls_buffer[i].k, f)

\* C5 witness: two indices are accumulated, and the arguments of one of them were
\* assembled from fragments of at least two deltas.
C5_Witness ==
    /\ Len(tool_calls_buffer) >= 2
    /\ \E i \in 1..Len(tool_calls_buffer) :
           LET ds == DeltasOf(received)
               mine == { j \in 1..Len(ds) :
                           /\ (IF ds[j].index = -1 THEN 0 ELSE ds[j].index)
                                  = tool_calls_buffer[i].k
                           /\ ds[j].arguments.has /\ ds[j].arguments.s /= <<>> }
           IN  Cardinality(mine) >= 2 /\ Len(tool_calls_buffer[i].v.arguments) >= 2

\* The last line read closed the accumulator and its round of executions is over.
RoundOver ==
    /\ received /= <<>>
    /\ received[Len(received)].k = "event"
    /\ received[Len(received)].choices
    /\ received[Len(received)].finish = "tool_calls"
    /\ tool_calls_buffer /= <<>>
    /\ stream /= "executing"

\* C6: partial failure isolation: when the accumulator closed, every call whose
\* arguments are not valid JSON is reported as an error and not executed, and
\* every other call was executed to its end and has its own result reported,
\* whatever the outcome of its siblings.
C6_PartialFailureIsolation ==
    RoundOver =>
        \A i \in 1..Len(tool_calls_buffer) :
            LET e == tool_calls_buffer[i]
                runs == { n \in 1..Len(executions) :
                            executions[n].round = rounds /\ executions[n].index = e.k }
            IN  IF JsonValid(e.v.arguments)
                THEN /\ \E n \in runs :
                            /\ executions[n].done
                            /\ executions[n].name = e.v.name
                            /\ \E c \in 1..Len(delivered) :
                                   /\ delivered[c].site = "result"
                                   /\ delivered[c].index = e.k
                                   /\ delivered[c].round = rounds
                                   /\ delivered[c].ok = executions[n].success
                     /\ ~\E c \in 1..Len(delivered) :
                            /\ delivered[c].site = "arg_error"
                            /\ delivered[c].index = e.k
                            /\ delivered[c].round = rounds
                ELSE /\ runs = {}
                     /\ \E c \in 1..Len(delivered) :
                            /\ delivered[c].site = "arg_error"
                            /\ delivered[c].index = e.k
                            /\ delivered[c].round = rounds

\* C6 witness: three accumulated calls, the second with unparsable arguments; the
\* first and the third were executed and succeeded.
C6_Witness ==
    /\ RoundOver
    /\ Len(tool_calls_buffer) = 3
    /\ ~JsonValid(tool_calls_buffer[2].v.arguments)
    /\ Len(executions) = 2
    /\ executions[1].index = tool_calls_buffer[1].k /\ executions[1].success
    /\ executions[2].index = tool_calls_buffer[3].k /\ executions[2].success

C8_NoExecutionBeforeFinishSignal ==
    (executions /= <<>> \/ rounds > 0 \/ stream = "executing" \/ pending /= <<>>
        \/ \E c \in 1..Len(yielded) : yielded[c].site \notin {"text", "error"})
    => FinishSignalled

\* C8 witness: a stream that accumulated a call with valid arguments, signalled
\* finish_reason "stop" and ended: nothing was executed.
C8_Witness ==
    /\ stream = "stored"
    /\ \E i \in 1..Len(tool_calls_buffer) : JsonValid(tool_calls_buffer[i].v.arguments)
    /\ \E j \in 1..Len(received) : received[j].finish = "stop"
    /\ executions = <<>>

\* The text of the chunks of a chunk sequence that are text (strings yielded for
\* delta.content).
RECURSIVE TextOf(_)
TextOf(chunks) ==
    IF chunks = <<>> THEN <<>>
    ELSE (IF Head(chunks).site = "text" /\ ~Head(chunks).val.null
          THEN << Head(chunks).val.s >> ELSE <<>>) \o TextOf(Tail(chunks))

\* The text deltas of a sequence of lines.
RECURSIVE TextDeltasOf(_)
TextDeltasOf(lines) ==
    IF lines = <<>> THEN <<>>
    ELSE (IF Head(lines).k = "event" /\ Head(lines).choices
             /\ Head(lines).content.has /\ ~Head(lines).content.null
          THEN << Head(lines).content.s >> ELSE <<>>) \o TextDeltasOf(Tail(lines))

\* C9: the text chunks delivered to the caller of process_message_stream are
\* exactly the text deltas received from the provider, in the order received;
\* nothing else is delivered as text (no raw tool-call delta), and the caller
\* gets every chunk the adapter yielded.
C9_TextDeliveredInOrder ==
    /\ TextOf(delivered) = TextDeltasOf(received)
    /\ delivered = yielded
    /\ response_chunks = yielded

\* C9 witness: two text deltas were delivered in order while tool-call deltas
\* were accumulated.
C9_Witness ==
    /\ TextOf(delivered) = << <<"h">>, <<"i">> >>
    /\ tool_calls_buffer /= <<>>

\* The lines before the first "data: [DONE]".
RECURSIVE BeforeDone(_)
BeforeDone(lines) ==
    IF lines = <<>> \/ Head(lines).k = "done" THEN <<>>
    ELSE << Head(lines) >> \o BeforeDone(Tail(lines))

\* The delta.content fields of a sequence of lines.
RECURSIVE ContentsOf(_)
ContentsOf(lines) ==
    IF lines = <<>> THEN <<>>
    ELSE (IF Head(lines).k = "event" /\ Head(lines).choices /\ Head(lines).content.has
          THEN << Head(lines).content >> ELSE <<>>) \o ContentsOf(Tail(lines))

\* The values yielded for delta.content.
RECURSIVE ContentChunksOf(_)
ContentChunksOf(chunks) ==
    IF chunks = <<>> THEN <<>>
    ELSE (IF Head(chunks).site = "text" THEN << Head(chunks).val >> ELSE <<>>)
         \o ContentChunksOf(Tail(chunks))

\* C10: the adapter yields one chunk per "data: " event carrying delta.content,
\* in order, for the events before "[DONE]"; once "[DONE]" is read the stream
\* has ended and nothing that follows is handled.
C10_DoneEndsTheStream ==
    /\ ContentChunksOf(yielded) = ContentsOf(BeforeDone(received))
    /\ (\E j \in 1..Len(received) : received[j].k = "done")
           => /\ received[Len(received)].k = "done"
              /\ stream \in {"ended", "stored"}

\* C10 witness: the lines "Hel", "lo", "[DONE]" of the scenario: two text chunks
\* and the end of the stream.
C10_Witness ==
    /\ Len(received) = 3
    /\ received[3].k = "done"
    /\ ContentChunksOf(yielded) = << Str(<<"h">>), Str(<<"i">>) >>
    /\ Len(yielded) = 2
    /\ stream = "ended"

\* A line that is no JSON has just been read.
BadLineRead == received' = Append(received, BadLine)

\* C11: a stream line whose payload is not valid JSON is skipped: reading it
\* yields nothing, leaves the accumulator (and the executions) as they were and
\* leaves the adapter reading, so that the lines after it are handled as if it
\* had not been there.
C11_BadLineSkipped ==
    [][BadLineRead =>
          /\ yielded' = yielded
          /\ delivered' = delivered
          /\ tool_calls_buffer' = tool_calls_buffer
          /\ executions' = executions
          /\ pending' = pending
          /\ stream' = stream
          /\ stream' \in {"reading", "ollama_reading"}]_vars

\* C11 witness: after a skipped line a text delta was yielded, and (in the
\* OpenAI-style stream) a tool-call delta read after it was accumulated.
C11_Witness ==
    /\ Len(received) = 3
    /\ received[1].k = "bad"
    /\ received[2].content.has /\ ~received[2].content.null
    /\ TextOf(yielded) = << received[2].content.s >>
    /\ received[3].tool_calls /= <<>>
    /\ tool_calls_buffer /= <<>>

\* C12: on a failure of the provider request (unsupported family, non-2xx
\* status, connection error) the stream yields exactly one error chunk, that
\* chunk is the last one, and the generator ends normally (no exception leaves
\* it); without a failure no error chunk is yielded.
C12_OneTerminalErrorChunk ==
    LET errors == { i \in 1..Len(delivered) : delivered[i].site = "error" }
    IN  IF failure = "none"
        THEN errors = {}
        ELSE /\ errors = { Len(delivered) }
             /\ delivered = yielded
             /\ stream \in {"ended", "stored"}

\* C12 witness: the connection broke after two text chunks; the error chunk is
\* the third and last chunk and the turn was finalized.
C12_Witness ==
    /\ failure = "connection"
    /\ Len(delivered) = 3
    /\ delivered[1].site = "text" /\ delivered[2].site = "text"
    /\ delivered[3].site = "error"
    /\ stream = "stored"

(***************************************************************************)
(* Claims about the schema translator's namespacing (SpecNames).           *)
(***************************************************************************)
\* C13: namespacing round trip: execute_tool_call called with the schema name
\* generated for (tool id, server function) resolves to that tool id and that
\* server function.
C13_NamespacingRoundTrip ==
    \A c \in 1..Len(call_log) :
        call_log[c].op = "execute_tool_call" =>
            /\ call_log[c].tool_id = tool_schemas[call_log[c].schema].tool_id
            /\ call_log[c].server_tool_name
                   = tool_schemas[call_log[c].schema].server_tool_name

\* C14: namespacing uniqueness: the schema names generated for distinct
\* (tool id, server function name) pairs are pairwise distinct.
C14_NamespacingUnique ==
    \A i, j \in 1..Len(tool_schemas) :
        (tool_schemas[i].tool_id /= tool_schemas[j].tool_id
            \/ tool_schemas[i].server_tool_name /= tool_schemas[j].server_tool_name)
        => tool_schemas[i].name /= tool_schemas[j].name

(***************************************************************************)
(* Claims about the start of a turn and access validation.                 *)
(***************************************************************************)
\* The user of the turn may use the tool: it is registered and its required
\* group is in the user's static membership list.
MayUse(tool_id) ==
    /\ tool_id \in DOMAIN tools
    /\ \E g \in mock_user_groups_of(turn_user) : g = tools[tool_id].required_group

\* C15: a tool the user has no access to, or that is not registered, is excluded
\* from the turn: the authorized ids are exactly the selected ids the user may
\* use (in order), the schemas passed to the provider are schemas of tools whose
\* validation result has has_access = true, and no client is connected and no
\* tool call succeeds for a tool the user may not use.
C15_DeniedToolsExcluded ==
    /\ stream /= "start" =>
           tools_select_could_used = SelectSeq(selected_tools, MayUse)
    /\ \A i \in 1..Len(tool_schemas) :
           /\ MayUse(tool_schemas[i].tool_id)
           /\ \E v \in 1..Len(validated) :
                  /\ validated[v].tool_id = tool_schemas[i].tool_id
                  /\ validated[v].has_access
    /\ \A c \in 1..Len(clients) : MayUse(clients[c].tool)
    /\ \A e \in 1..Len(executions) :
           executions[e].success => MayUse(SplitFunctionName(executions[e].name).tool_id)

\* C15 witness: a turn with the tools a (denied) and f (granted): the schemas are
\* those of f only, a call of a function of a fails, a call of a function of f
\* succeeds, and the turn is stored.
C15_Witness ==
    /\ selected_tools = <<AD, FS>>
    /\ tools_select_could_used = <<FS>>
    /\ Len(tool_schemas) = 1 /\ tool_schemas[1].tool_id = FS
    /\ \E e \in 1..Len(executions) :
           executions[e].name = AD_r /\ executions[e].done /\ ~executions[e].success
    /\ \E e \in 1..Len(executions) :
           executions[e].name = FS_r /\ executions[e].success
    /\ stream = "stored"

\* result is what validate_tool_access has to return for tool_ids and user_email.
ValidResult(tool_ids, user_email, result) ==
    /\ Len(result) = Len(tool_ids)
    /\ \A i \in 1..Len(tool_ids) :
           /\ result[i].tool_id = tool_ids[i]
           /\ IF tool_ids[i] \in DOMAIN tools
              THEN result[i].has_access
                       = (tools[tool_ids[i]].required_group
                              \in mock_user_groups_of(user_email))
              ELSE ~result[i].has_access /\ result[i].reason = "Tool not found"

\* C16: validate_tool_access returns exactly one result per requested tool id, in
\* request order; an unregistered id yields has_access = false with the reason
\* "Tool not found", a registered id yields the user's membership in the tool's
\* required group.
C16_OneValidationPerTool ==
    /\ \A c \in 1..Len(call_log) :
           call_log[c].op = "validate_tool_access" =>
               ValidResult(call_log[c].input, call_log[c].user_email, call_log[c].result)
    /\ (stream /= "start" /\ selected_tools /= <<>>)
           => ValidResult(selected_tools, turn_user, validated)

\* C16 witness: the ids a, x (unregistered), f validated for user@example.com:
\* denied, not found, granted, in that order.
C16_Witness ==
    \E c \in 1..Len(call_log) :
        /\ call_log[c].op = "validate_tool_access"
        /\ call_log[c].input = <<AD, X, FS>>
        /\ call_log[c].user_email = "user@example.com"
        /\ [i \in 1..3 |-> call_log[c].result[i].has_access] = <<FALSE, FALSE, TRUE>>

\* A validation call has just been logged.
ValidationLogged ==
    /\ Len(call_log') = Len(call_log) + 1
    /\ call_log'[Len(call_log')].op
           \in {"validate_tool_access", "validate_provider_access"}

C18_StaticMembership ==
    \A c \in 1..Len(call_log) :
        call_log[c].op = "is_user_in_group" =>
            call_log[c].result =
                CASE call_log[c].userid = "test@test.com" ->
                         call_log[c].groupid \in {"default", "admin", "mcp_users"}
                  [] call_log[c].userid = "user@example.com" ->
                         call_log[c].groupid \in {"default", "mcp_users"}
                  [] call_log[c].userid = "admin@example.com" ->
                         call_log[c].groupid
                             \in {"default", "admin", "mcp_users", "super_admin"}
                  [] OTHER -> call_log[c].groupid = "default"

\* C18 witness: a user absent from the table was found in "default" and not in
\* "mcp_users".
C18_Witness ==
    /\ Len(call_log) = 2
    /\ call_log[1] = [op |-> "is_user_in_group", userid |-> "unknown",
                      groupid |-> "default", result |-> TRUE]
    /\ call_log[2] = [op |-> "is_user_in_group", userid |-> "unknown",
                      groupid |-> "mcp_users", result |-> FALSE]

(***************************************************************************)
(* Claims about the chat log (SpecHistory).                                *)
(***************************************************************************)
\* C19: bounded history: after n stored turns of a user the log holds exactly
\* the most recent min(n, 100) turns in their original order (never more than
\* 100 entries; the oldest are evicted).
C19_BoundedHistory ==
    \A u \in Users :
        LET h == chat_history[u]
            n == turns[u]
        IN  /\ Len(h) = (IF n < 100 THEN n ELSE 100)
            /\ \A i \in 1..Len(h) : h[i].user_message = n - Len(h) + i

\* C19 witness: 102 turns were stored for a user; the log holds the turns 3..102.
C19_Witness ==
    \E u \in Users :
        /\ turns[u] = 102
        /\ Len(chat_history[u]) = 100
        /\ chat_history[u][1].user_message = 3
        /\ chat_history[u][100].user_message = 102

\* C20: get_chat_history(user, limit) has at most limit entries and is the
\* suffix of the user's log of length min(limit, log length), for every limit.
C20_HistoryTail ==
    \A c \in 1..Len(call_log) :
        call_log[c].op = "get_chat_history" =>
            LET h == chat_history[call_log[c].user_email]
                k == IF call_log[c].limit < Len(h) THEN call_log[c].limit ELSE Len(h)
            IN  /\ Len(call_log[c].result) <= call_log[c].limit
                /\ call_log[c].result = SubSeq(h, Len(h) - k + 1, Len(h))

(***************************************************************************)
(* Claims about whole turns (SpecChat, SpecAdapters).                      *)
(***************************************************************************)
\* The concatenation, in order, of the text of the chunks of a chunk sequence
\* (a chunk that is None has no text).
RECURSIVE EmittedText(_)
EmittedText(chunks) ==
    IF chunks = <<>> THEN <<>>
    ELSE (IF Head(chunks).site = "text" /\ Head(chunks).val.null
          THEN <<>> ELSE ChunkText(Head(chunks)))
         \o EmittedText(Tail(chunks))

\* The results process_message has returned.
Returned == { c \in 1..Len(call_log) : call_log[c].op = "process_message" }

\* C21: a turn that runs to completion (process_message returns, the generator
\* of process_message_stream is exhausted) appends exactly one entry to the log
\* of its user and none to another log; nothing is appended before.  The entry
\* holds the user message and the provider id of the turn and the full
\* response: the returned content for process_message, the concatenation in
\* order of all chunks emitted to the caller for a streaming turn.
C21_CompletedTurnStoredOnce ==
    /\ \A u \in Users :
           Len(chat_history[u]) = (IF stream = "stored" /\ u = turn_user THEN 1 ELSE 0)
    /\ Cardinality(Returned) <= 1
    /\ Returned /= {} => stream = "stored"
    /\ stream = "stored" =>
           LET entry == chat_history[turn_user][1]
           IN  /\ entry.user_message = message
               /\ entry.provider = llm_provider
               /\ entry.assistant_response =
                      (IF Returned /= {}
                       THEN call_log[CHOOSE c \in Returned : TRUE].content
                       ELSE EmittedText(delivered))

\* C21 witness: a streaming turn that emitted a text chunk and the blocks of a
\* tool execution, and was stored with all of them.
C21_Witness ==
    /\ stream = "stored"
    /\ Returned = {}
    /\ Len(delivered) >= 6
    /\ \E i \in 1..Len(delivered) : delivered[i].site = "text"
    /\ \E i \in 1..Len(delivered) : delivered[i].site = "result" /\ delivered[i].ok
    /\ chat_history[turn_user][1].assistant_response = EmittedText(delivered)
    /\ Len(chat_history[turn_user][1].assistant_response) > Len(delivered)

\* a is an initial part of b.
IsPrefix(a, b) == Len(a) <= Len(b) /\ SubSeq(b, 1, Len(a)) = a

\* The chunks delivered before the last one.
BeforeLast(chunks) == SubSeq(chunks, 1, Len(chunks) - 1)

\* C22: when the provider request fails (before the first line or mid-stream),
\* no chunk already emitted is retracted (the chunks delivered to the caller
\* only grow at their end), the caller receives an explicit error chunk after
\* them, the generator ends normally so that the turn is stored, and the stored
\* response starts with the text emitted before the error (it may be empty; the
\* text of the error chunk follows it).
C22_PartialTextKeptOnError ==
    /\ [][IsPrefix(delivered, delivered') /\ IsPrefix(response_chunks, response_chunks')]_vars
    /\ [](failure /= "none" =>
             /\ delivered /= <<>>
             /\ delivered[Len(delivered)].site = "error"
             /\ \A i \in 1..(Len(delivered) - 1) : delivered[i].site /= "error"
             /\ stream \in {"ended", "stored"}
             /\ stream = "ended" => ENABLED Finalize
             /\ stream = "stored" =>
                    /\ Len(chat_history[turn_user]) = 1
                    /\ IsPrefix(EmittedText(BeforeLast(delivered)),
                                chat_history[turn_user][1].assistant_response))

\* C22 witness: the connection broke after the text chunks "h" and "i"; the
\* caller has both and the error chunk, and the stored response starts with "hi".
C22_Witness ==
    /\ failure = "connection"
    /\ stream = "stored"
    /\ Len(delivered) = 3
    /\ TextOf(delivered) = << <<"h">>, <<"i">> >>
    /\ delivered[3].site = "error"
    /\ IsPrefix(<<"h", "i">>, chat_history[turn_user][1].assistant_response)

\* The tool ids of the execute_tool_call invocations of the turn.
InvokedIds ==
    { SplitFunctionName(executions[e].name).tool_id : e \in 1..Len(executions) }

\* The tool ids of the invocations that reached their tool and succeeded.
SucceededIdSet ==
    { SplitFunctionName(executions[e].name).tool_id :
          e \in { x \in 1..Len(executions) : executions[x].success } }

\* C23: the tools_used list of the stored entry (and of the returned result) is
\* the list of the tools invoked in the turn: every id in it belongs to an
\* execute_tool_call invocation of the turn, and the id of every tool that was
\* executed is in it.
C23_ToolsUsedAreInvoked ==
    stream = "stored" =>
        LET used == chat_history[turn_user][1].tools_used
        IN  /\ \A c \in Returned : call_log[c].tools_used = used
            /\ \A i \in 1..Len(used) : used[i] \in InvokedIds
            /\ \A id \in SucceededIdSet : \E i \in 1..Len(used) : used[i] = id

(***************************************************************************)
(* Further claims about the tool client pool (SpecPool, SpecClose).        *)
(***************************************************************************)
\* The __aenter__ awaited by task t has just raised.
ConnectFailed(t) ==
    /\ task[t].pc = "aenter"
    /\ task'[t].pc = "done"
    /\ clients'[task[t].client].state = "failed"

\* Task t has just started an operation that asks the pool of its service for
\* the client of a server-backed tool the pool has no entry for.
GetsUncached(t) ==
    /\ task[t].pc \in {"idle", "done"}
    /\ task'[t].pc \in {"aenter", "call_tool", "list_tools"}
    /\ ~DictHas(mcp_clients[task'[t].svc], task'[t].tool)

Range(seq) == { seq[i] : i \in 1..Len(seq) }

\* The services whose close_mcp_clients call returns in the step: they were
\* to be closed (by the shutdown path, or by the call that is under way) and
\* are no longer.
CloseReturned ==
    (IF closer.pc = "running" /\ closer'.pc /= "running"
     THEN Range(closer.registered) ELSE Range(closer.svcs)) \ Range(closer'.svcs)

AexitCount(c) == Cardinality({ i \in 1..Len(closer.aexits) : closer.aexits[i] = c })

\* C26: every tool client established during the process lifetime is torn down
\* exactly once at orderly shutdown: when the shutdown path has finished (it
\* started with no operation under way and no __aexit__ failed), no established
\* client is still open and none had its __aexit__ awaited twice.
C26_EveryClientClosedOnce ==
    (/\ closer.pc = "done"
     /\ closer.quiet
     /\ \A i \in 1..Len(closer.aexits) : clients[closer.aexits[i]].state = "closed")
        => \A c \in 1..Len(clients) :
               clients[c].state \in {"open", "closed"} =>
                   /\ clients[c].state = "closed"
                   /\ AexitCount(c) = 1

(***************************************************************************)
(* Claims about the entry points of a turn (SpecWs, SpecWsFair, SpecChat). *)
(***************************************************************************)
\* The text is empty or consists of whitespace only.
IsBlank(text) == \A i \in 1..Len(text) : text[i] \in Whitespace

\* No part of a turn has run: no validation, no client, no provider request,
\* no execution, no stored entry.
NoWorkDone ==
    /\ clients = <<>>
    /\ \A svc \in Services : mcp_clients[svc] = <<>>
    /\ validated = <<>> /\ selected_tools = <<>> /\ tool_schemas = <<>>
    /\ call_log = <<>>
    /\ adapter_calls = 0
    /\ executions = <<>> /\ received = <<>> /\ delivered = <<>>
    /\ \A u \in Users : chat_history[u] = <<>> /\ turns[u] = 0

\* C27: a chat request whose message is empty or whitespace only, or that names
\* no provider, is rejected before any work is done: the websocket client is
\* sent one chat_error message (the HTTP caller gets status 400), the handler
\* returns, and no tool validation, connection, provider request, start marker
\* or chat-log entry results from it.
C27_RejectedBeforeAnyWork ==
    /\ [][\A msg \in MessageInputs, provider \in LlmProviderInputs :
             (IsBlank(msg) \/ provider = "") =>
                 /\ HandleChatMessage(msg, provider) =>
                        /\ Len(ws'.sent) = Len(ws.sent) + 1
                        /\ ws'.sent[Len(ws'.sent)].type = "chat_error"
                        /\ SubSeq(ws'.sent, 1, Len(ws.sent)) = ws.sent
                        /\ stream' = "waiting"
                        /\ UNCHANGED <<poolVars, validated, selected_tools, tool_schemas,
                                       call_log, adapter_calls, executions, received,
                                       delivered, chat_history, turns, message, llm_provider>>
                 /\ SendMessage(msg, provider) =>
                        /\ failure' = "http_400"
                        /\ stream' = "raised"
                        /\ UNCHANGED <<poolVars, validated, selected_tools, tool_schemas,
                                       call_log, adapter_calls, executions, received,
                                       delivered, chat_history, turns, message, llm_provider,
                                       ws>>]_vars
    /\ []((stream = "waiting" \/ failure = "http_400") =>
             /\ NoWorkDone
             /\ \A i \in 1..Len(ws.sent) : ws.sent[i].type = "chat_error")

\* C27 witness: a connection on which a whitespace-only message and a message
\* without provider id were rejected: two chat_error messages, nothing else.
C27_Witness ==
    /\ stream = "waiting"
    /\ ws.handled = 2
    /\ ws.sent = << ChatError(Rejection(<<"\t", "\n">>, "p1")),
                    ChatError(Rejection(<<" ", "m", " ">>, "")) >>
    /\ NoWorkDone

\* A message of the connection was accepted by handle_chat_message.
Accepted == ws.handler = "handle_chat_message"

\* The position of the start marker among the messages sent.
StartAt == CHOOSE k \in 1..Len(ws.sent) : ws.sent[k].part = "start"

\* What an accepted message has the client receive after the start marker, up
\* to the current point of the turn: the chunks of the turn in order, and the
\* end marker once the handler has returned.
StreamMessages ==
    [i \in 1..Len(delivered) |-> WsMessage("chat_stream", "content", delivered[i])]
    \o (IF stream = "over" THEN << StreamEnd >> ELSE <<>>)

\* C29: for a chat message accepted on a connection, the messages sent to the
\* client are one start marker, then the chunks of the turn in order, then one
\* end marker (all of them while the connection stays open, a prefix of them
\* once the client is gone); and every started stream reaches its end marker,
\* also when the turn ends with a provider or tool error.
C29_StartChunksEnd ==
    /\ [](Accepted =>
             /\ Cardinality({ k \in 1..Len(ws.sent) : ws.sent[k].part = "start" }) = 1
             /\ \A k \in 1..(StartAt - 1) : ws.sent[k].type = "chat_error"
             /\ LET rest == SubSeq(ws.sent, StartAt + 1, Len(ws.sent))
                IN  IF ws.open THEN rest = StreamMessages
                    ELSE IsPrefix(rest, StreamMessages))
    /\ [](~Accepted => \A k \in 1..Len(ws.sent) : ws.sent[k].type /= "chat_stream")
    /\ (Accepted ~> (stream = "over"))

\* C29 witness: after a rejected message, a turn whose provider connection
\* broke behind a text chunk: the client has the chat_error, the start marker,
\* the text, the error chunk and the end marker, in this order.
C29_Witness ==
    /\ ws.open
    /\ stream = "over"
    /\ failure = "connection"
    /\ Len(ws.sent) = 5
    /\ ws.sent[1].type = "chat_error"
    /\ ws.sent[2] = StreamStart
    /\ ws.sent[3].content.site = "text"
    /\ ws.sent[4].content.site = "error"
    /\ ws.sent[5] = StreamEnd

\* The provider of the turn is not registered, the user of the turn is not in
\* its required group, or it is not available.
ProviderDenied ==
    \/ llm_provider \notin DOMAIN providers
    \/ providers[llm_provider].required_group \notin mock_user_groups_of(turn_user)
    \/ ~providers[llm_provider].available

\* C28: when the user lacks the required group of the selected provider, or
\* the provider is not registered or not available, the turn is aborted: no
\* adapter of a provider is called, no line of a provider is read and no tool
\* call is executed in the turn; the streaming turn yields one error chunk and
\* ends, process_message raises.
C28_DeniedProviderAbortsTurn ==
    ProviderDenied =>
        /\ adapter_calls = 0
        /\ received = <<>>
        /\ executions = <<>> /\ pending = <<>>
        /\ stream \in {"start", "schemas", "request", "ended", "stored", "raised"}
        /\ stream \in {"ended", "stored", "raised"} => failure = "denied"
        /\ stream = "raised" => delivered = <<>> /\ chat_history[turn_user] = <<>>
        /\ stream \in {"ended", "stored"} =>
               Len(delivered) = 1 /\ delivered[1].site = "error"

\* C28 witness: a streaming turn of user@example.com with the tool f and the
\* provider p3, which is not available: the schemas of f were fetched, the
\* provider was not called, the error chunk is all the turn produced.
C28_Witness ==
    /\ turn_user = "user@example.com"
    /\ llm_provider = "p3"
    /\ tool_schemas /= <<>>
    /\ stream = "stored"
    /\ failure = "denied"
    /\ adapter_calls = 0
    /\ executions = <<>>
    /\ Len(delivered) = 1

\* The chunk is a Python str (not None).
IsString(chunk) == chunk.val.has /\ ~chunk.val.null

\* C30: every chunk yielded by generate_response_stream and every chunk yielded
\* by process_message_stream is a string, whatever the provider sends.
C30_EveryChunkIsString ==
    /\ \A i \in 1..Len(yielded) : IsString(yielded[i])
    /\ \A i \in 1..Len(delivered) : IsString(delivered[i])

(***************************************************************************)
(* Claims about identity, listing, schemas and the chat log.               *)
(***************************************************************************)
\* The connection or request of the turn carried no user identity and was
\* processed.
IdentityAbsent ==
    /\ call_log /= <<>>
    /\ call_log[1].op \in {"websocket_endpoint", "dispatch"}
    /\ call_log[1].header = ""
    /\ stream \notin {"connecting", "redirected"}

\* C31: a request or connection that carries no user identity is processed
\* under the user id "unknown", with the access of an unknown user: the tools
\* authorized for the turn and the tools executed in it require the default
\* group only.
C31_AbsentIdentityIsUnknown ==
    IdentityAbsent =>
        /\ turn_user = "unknown"
        /\ \A i \in 1..Len(tools_select_could_used) :
               tools[tools_select_could_used[i]].required_group = "default"
        /\ \A e \in 1..Len(executions) :
               executions[e].success =>
                   tools[SplitFunctionName(executions[e].name).tool_id].required_group
                       = "default"

\* A websocket connection without identity, production settings: the tool of
\* the admin group was authorized for its turn and its schema passed on.
C31_AdminToolAuthorized ==
    /\ IdentityAbsent
    /\ call_log[1].op = "websocket_endpoint"
    /\ ~call_log[1].debug
    /\ tools_select_could_used = <<AD, FS>>
    /\ \E i \in 1..Len(tool_schemas) : tool_schemas[i].tool_id = AD
    /\ stream = "over"

\* The calls of execute_tool_call that have returned.
ToolCallsReturned ==
    { c \in 1..Len(call_log) :
        call_log[c].op = "execute_tool_call" /\ "returned" \in DOMAIN call_log[c] }

\* The call was bound to fail: malformed name, unknown tool, denied user, no
\* server behind the tool, failed connection or failed tool server.
MustFail(call) ==
    LET parts == SplitFunctionName(call.function_name)
    IN  \/ ~parts.ok
        \/ parts.tool_id \notin DOMAIN tools
        \/ ~is_user_in_group(call.user_email, tools[parts.tool_id].required_group)
        \/ ~call.reach
        \/ call.env /= "ok"

\* C32: execute_tool_call never raises: every call returns a record with a
\* boolean success, a tool id and a tool name, a result when success is true
\* and an error when it is false, and every failure (malformed name, unknown
\* tool, denied access, connection failure, tool-server failure) yields
\* success = false.
C32_UniformToolResult ==
    \A c \in ToolCallsReturned :
        LET res == call_log[c].returned
        IN  /\ ~res.raised
            /\ res.success \in BOOLEAN
            /\ {"success", "tool_id", "tool_name"} \subseteq res.keys
            /\ res.success => ("result" \in res.keys /\ "error" \notin res.keys)
            /\ ~res.success => ("error" \in res.keys /\ "result" \notin res.keys)
            /\ MustFail(call_log[c]) => ~res.success
            /\ ~MustFail(call_log[c]) => res.success

C32_Witness ==
    /\ Len(call_log) = 2
    /\ ToolCallsReturned = {1, 2}
    /\ call_log[1].function_name = <<"r">> /\ ~call_log[1].returned.success
    /\ call_log[2].function_name = FS_r /\ call_log[2].env = "call_fail"
    /\ ~call_log[2].returned.success

\* The keys of a dict.
Keys(d) == { d[i].k : i \in 1..Len(d) }

\* C33: for every input schema of a tool server (missing, None, empty or
\* lacking any subset of the keys) the produced parameters contain the keys
\* type, properties and required; an empty or missing input yields the empty
\* object schema, and keys present in the input keep their values.
C33_ParametersNormalized ==
    \A c \in 1..Len(call_log) :
        call_log[c].op = "_convert_parameters_schema" =>
            LET in == call_log[c].mcp_tool
                out == call_log[c].parameters
            IN  /\ {"type", "properties", "required"} \subseteq Keys(out)
                /\ \A i, j \in 1..Len(out) : out[i].k = out[j].k => i = j
                /\ (~in.has \/ in.null \/ in.d = <<>>) =>
                       /\ Keys(out) = {"type", "properties", "required"}
                       /\ DictGet(out, "type") = "object"
                       /\ DictGet(out, "properties") = "{}"
                       /\ DictGet(out, "required") = "[]"
                /\ \A key \in Keys(in.d) : DictGet(out, key) = DictGet(in.d, key)
                /\ Keys(out) \subseteq Keys(in.d) \cup {"type", "properties", "required"}

C33_Witness ==
    /\ Len(call_log) = 2
    /\ call_log[1].op = "_convert_parameters_schema"
    /\ call_log[1].mcp_tool = NoSchema
    /\ call_log[2].op = "_convert_parameters_schema"
    /\ Keys(call_log[2].mcp_tool.d) = {"title", "properties"}
    /\ DictGet(call_log[2].parameters, "properties") = "{x}"
    /\ DictGet(call_log[2].parameters, "required") = "[]"

\* The last HistoryCap entries of a log.
LastEntries(h) ==
    IF Len(h) > HistoryCap THEN SubSeq(h, Len(h) - HistoryCap + 1, Len(h)) ELSE h

\* The turns that are stored in this step.
StoredNow == { t \in Tasks : task[t].pc = "streaming" /\ task'[t].result = "stored" }

\* C34: appends to one user's chat log by concurrent turns are serialized:
\* under every interleaving no entry is lost or duplicated (a step that
\* stores a turn adds exactly its entry at the end of the user's log and
\* evicts only the oldest one, no other step changes a log, no entry occurs
\* twice), the entries are in the order in which their turns were stored,
\* and no log ever holds more than 100 entries.
C34_AppendsSerialized ==
    /\ [](\A u \in Users :
            /\ Len(chat_history[u]) <= HistoryCap
            /\ \A i, j \in 1..Len(chat_history[u]) :
                   chat_history[u][i] = chat_history[u][j] => i = j)
    /\ [][\A u \in Users :
            \/ /\ chat_history'[u] = chat_history[u]
               /\ \A t \in StoredNow : task[t].user /= u
            \/ \E t \in StoredNow :
                   /\ task[t].user = u
                   /\ StoredNow = {t}
                   /\ chat_history'[u] = LastEntries(Append(chat_history[u],
                                             [user_message |-> task[t].message]))]_vars

\* Two turns of one user were under way at once on a log of 99 entries; the
\* one submitted second was stored first, then the other.
C34_Witness ==
    /\ Len(call_log) = 2
    /\ call_log[1].user_email = "user@example.com"
    /\ call_log[2].user_email = "user@example.com"
    /\ \A t \in Tasks : task[t].pc = "done" /\ task[t].result = "stored"
    /\ Len(chat_history["user@example.com"]) = HistoryCap
    /\ chat_history["user@example.com"][HistoryCap].user_message = Submitted(0)
    /\ chat_history["user@example.com"][HistoryCap - 1].user_message = Submitted(1)
    /\ chat_history["user@example.com"][1].user_message = 2

\* The connection of the turn was accepted and has been removed from
\* active_connections.
Removed == ws.accepted /\ ~ws.open

\* The content messages sent on the socket.
ContentSent == SelectSeq(ws.sent, LAMBDA m : m.part = "content")

\* C35: once the connection of a streaming turn has been removed from the
\* connection table nothing more is sent on it, whatever the turn goes on to
\* yield, and every entry of a client cache is an established client of the
\* entry's tool in that pool.
C35_NothingSentAfterDisconnect ==
    /\ [][Removed => ws'.sent = ws.sent]_vars
    /\ [](\A svc \in Services : \A i \in 1..Len(mcp_clients[svc]) :
            /\ mcp_clients[svc][i].v \in Established(svc, mcp_clients[svc][i].k)
            /\ \A j \in 1..Len(mcp_clients[svc]) :
                   mcp_clients[svc][i].k = mcp_clients[svc][j].k => i = j)

\* The client left during a turn that went on to yield text, to execute a
\* tool on a new client and to be stored; the chunks yielded after the
\* removal were not sent.
C35_Witness ==
    /\ Removed
    /\ stream = "over"
    /\ Len(ContentSent) > 0
    /\ Len(ContentSent) < Len(delivered)
    /\ mcp_clients["llm"] /= <<>>
    /\ \E e \in 1..Len(executions) : executions[e].success
    /\ chat_history[turn_user] /= <<>>

\* The listings that have returned.
Listed == { t \in Tasks : task[t].op = "get_available_tools" /\ task[t].pc = "done" }

\* C36: get_available_tools returns one entry per registered tool, in the
\* order of the registry, whatever the tool servers do: a failure to connect
\* to or to enumerate a server is attached to the entry of its tool as
\* mcp_error, and the entry of a tool whose server answered carries mcp_tools.
C36_ListingIsBestEffort ==
    \A t \in Listed :
        /\ [i \in 1..Len(task[t].result) |-> task[t].result[i].id] = ToolOrder
        /\ \A i \in 1..Len(task[t].result) :
               LET tool_info == task[t].result[i]
               IN  /\ tool_info.env /= "ok" => (tool_info.mcp_error /\ ~tool_info.mcp_tools)
                   /\ (tool_info.env = "ok" /\ AsksServer(tool_info.id, task[t].user))
                          => (tool_info.mcp_tools /\ ~tool_info.mcp_error)

\* A listing for user@example.com returned in which the server of f could
\* not be connected to and the server of d_s answered.
C36_Witness ==
    \E t \in Listed :
        /\ task[t].user = "user@example.com"
        /\ task[t].result[1].id = FS /\ task[t].result[1].env = "connect_fail"
        /\ task[t].result[1].mcp_error
        /\ task[t].result[2].id = DS /\ task[t].result[2].mcp_tools
        /\ Len(task[t].result) = Len(ToolOrder)

\* The turn has passed the provider check of generate_response_stream or
\* generate_response, or was stopped by it.
PastProviderCheck == stream \notin {"idle", "start", "schemas", "request"}

C38_WitnessDenied ==
    /\ llm_provider = "p2" /\ turn_user = "unknown"
    /\ stream = "stored" /\ failure = "denied" /\ adapter_calls = 0
    /\ delivered /= <<>>
    /\ ~validate_provider_access(llm_provider, turn_user).has_access

\* process_message has returned for a response of the provider that carried
\* tool calls.
ReturnedWithToolCalls ==
    /\ stream = "stored"
    /\ \E c \in 1..Len(call_log) : call_log[c].op = "process_message"
    /\ received /= <<>>
    /\ received[1].tool_calls /= <<>>

\* C37: in the non-streaming turn a tool call that fails (unparsable
\* arguments, denied or unknown tool, tool-server failure) is reported as a
\* failed result alongside the results of the other tool calls: every tool
\* call of the response has its result line in the response that is returned
\* and stored, the calls whose arguments parse were all executed, and the
\* turn returns.
C37_FailedCallReportedAlongside ==
    ReturnedWithToolCalls =>
        LET calls == AccumulateAll(<<>>, received[1].tool_calls)
            final == call_log[Len(call_log)].content
        IN  /\ \A i \in 1..Len(calls) :
                   JsonValid(calls[i].v.arguments) =>
                       \E e \in 1..Len(executions) :
                           executions[e].index = calls[i].k /\ executions[e].done
            /\ \E results \in [1..Len(calls) -> BOOLEAN] :
                   final = Fragment(received[1].content) \o << "[", "results", "]" >>
                           \o Join([i \in 1..Len(calls) |->
                                      Chunk("result", Str(calls[i].v.name), calls[i].k, 1,
                                            results[i])])
            /\ chat_history[turn_user] /= <<>>

\* user_email is in the required group of the registered tool tool_id.
Allowed(user_email, tool_id) ==
    /\ tool_id \in DOMAIN tools
    /\ is_user_in_group(user_email, tools[tool_id].required_group)

\* C39: listing and schema generation never open a tool-server connection on
\* behalf of a user who lacks the tool's required group: a task of
\* get_tool_schemas_for_user that connects to or asks a server does so for a
\* tool of a group of its user, a listing carries mcp_tools or mcp_error only
\* for such tools, and every step that constructs a client or changes a
\* client cache is taken by a task whose user is in the group of the tool.
C39_NoConnectionForDeniedUser ==
    /\ [](\A t \in Tasks :
            /\ task[t].pc \in {"aenter", "list_tools"} => Allowed(task[t].user, task[t].tool)
            /\ task[t].op = "get_available_tools" =>
                   \A i \in 1..Len(task[t].result) :
                       (task[t].result[i].mcp_tools \/ task[t].result[i].mcp_error)
                           => Allowed(task[t].user, task[t].result[i].id))
    /\ [][(clients' /= clients \/ mcp_clients' /= mcp_clients) =>
             \E t \in Tasks :
                 /\ task'[t] /= task[t]
                 /\ \/ task[t].pc = "aenter" /\ Allowed(task[t].user, task[t].tool)
                    \/ task'[t].pc = "aenter" /\ Allowed(task'[t].user, task'[t].tool)
                    \/ task[t].pc = "listing"
                           /\ Allowed(task[t].user, Head(task[t].todo))]_vars

\* A listing for the user "unknown" returned: the entry of f (group
\* mcp_users) carries the access reason and nothing of the server, the server
\* of d_s was asked, and the only client constructed is one of d_s.
C39_Witness ==
    \E t \in Listed :
        /\ task[t].user = "unknown"
        /\ task[t].result[1].id = FS /\ task[t].result[1].access_reason
        /\ ~task[t].result[1].mcp_tools /\ ~task[t].result[1].mcp_error
        /\ task[t].result[2].id = DS /\ task[t].result[2].mcp_tools
        /\ clients /= <<>>
        /\ \A i \in 1..Len(clients) : clients[i].tool = DS

\* The user who submitted the turn that carries msg in this run.
SubmittedBy(msg) ==
    { call_log[c].user_email : c \in { d \in 1..Len(call_log) : call_log[d].message = msg } }

\* C40: chat logs are isolated per user: a step that stores a turn of user u
\* changes the log of u only, every entry of u's log that was stored in this
\* run belongs to a turn submitted by u, and get_chat_history(u), with any
\* limit, returns entries of u's log only.
C40_LogsIsolatedPerUser ==
    /\ [][\A t \in StoredNow : \A u \in Users :
             u /= task[t].user => chat_history'[u] = chat_history[u]]_vars
    /\ [](\A u \in Users :
            /\ \A i \in 1..Len(chat_history[u]) :
                   chat_history[u][i].user_message >= HistoryCap
                       => SubmittedBy(chat_history[u][i].user_message) = {u}
            /\ \A limit \in LimitInputs :
                   LET got == get_chat_history(chat_history[u], limit)
                   IN  \A i \in 1..Len(got) :
                           \E j \in 1..Len(chat_history[u]) : got[i] = chat_history[u][j])

\* Turns of the two users were under way at once and both were stored, each
\* in the log of its user.
C40_Witness ==
    /\ Len(call_log) = 2
    /\ call_log[1].user_email = "user@example.com" /\ call_log[2].user_email = "unknown"
    /\ \A t \in Tasks : task[t].pc = "done" /\ task[t].result = "stored"
    /\ chat_history["user@example.com"] = << [user_message |-> Submitted(0)] >>
    /\ Len(chat_history["unknown"]) = HistoryCap
    /\ chat_history["unknown"][HistoryCap].user_message = Submitted(1)

====
